---- MODULE Spec2Model ----
(***************************************************************************)
(* The Auto-Organize workflow of the FileSorter desktop agent: the         *)
(* Dashboard component (Dashboard.tsx) with its asynchronous handlers      *)
(* handleStartOrganize, handleExecuteOrganize, handleGenerateRules and     *)
(* resetOrganize, and the tab switch of App.tsx that mounts and unmounts   *)
(* the component; and the shell around it: App.tsx with the login and the  *)
(* logout, Login.tsx, and Settings.tsx with the saves of the               *)
(* configuration.                                                          *)
(*                                                                         *)
(* Every handler is an async function: it runs synchronously up to its     *)
(* next await, where it waits for a collaborator (a Tauri command or an    *)
(* HTTP request).  One action of the model is one such synchronous run:    *)
(* the click that starts a handler, or the continuation that runs when a   *)
(* pending call returns or throws.  Collaborators are external, so their   *)
(* answers are chosen nondeterministically from small sets.                *)
(***************************************************************************)
EXTENDS Integers, Sequences, FiniteSets, TLC

(***************************************************************************)
(* Bounds of the model.                                                    *)
(***************************************************************************)
MaxRulesPending == 1 \* generate-rules requests pending at the same time
MaxOrphans == 1      \* handlers still running for an unmounted Dashboard
MaxFiles == 2        \* length of the scanned lists of the main specification
MaxRules == 2        \* rules in a generate-rules response
MaxMoveFiles == 3    \* length of the scanned lists of the move construction
MaxExtractFiles == 6 \* length of the scanned lists of the content extraction
MaxPending == 2      \* pending handlers of App, Login and Settings
MaxFolders == 1      \* watched folders of the configuration

(***************************************************************************)
(* Program constants.                                                      *)
(***************************************************************************)
FileCap == 5000      \* files.length > 5000 is rejected
batchSize == 5       \* content extraction window

(***************************************************************************)
(* Data.                                                                   *)
(***************************************************************************)
Folders == {"F1"}
NoToken == "null"
Tokens == {"T1"}
NoPreview == 0       \* content_preview: ''

\* ScannedFile: filename and path (extension, size and date are carried along
\* unchanged by the code and never inspected).
ScannedFile(name, path) == [filename |-> name, path |-> path]

\* A scan of n files with pairwise different filenames and paths.
FileList(n) == [i \in 1..n |-> ScannedFile(i, i)]

\* A suggestion that comes without confidence (undefined in the code).
NoConfidence == -1

\* FolderSuggestion: folder_path, files (filenames) and confidence (in tenths,
\* 0..10, or NoConfidence).
FolderSuggestion(p, fs, c) == [folder_path |-> p, files |-> fs, confidence |-> c]

\* OrganizeResult
OrganizeResult(folders) == [folders |-> folders, total_folders |-> Len(folders)]

\* The name of a file that no scan of the model returns.
Unscanned == FileCap + FileCap + 1

\* Responses of POST /auto-organize/analyze with a success status.
Plans ==
  { OrganizeResult(<< FolderSuggestion("Docs", <<1>>, 8), FolderSuggestion("Img", <<2>>, 0) >>),
    OrganizeResult(<< FolderSuggestion("Docs", <<1, Unscanned>>, 5) >>),
    OrganizeResult(<< FolderSuggestion("Misc", <<2, 1>>, NoConfidence) >>),
    OrganizeResult(<< >>) }

\* Non-success statuses of the remote service.
FailureStatuses == {401, 404, 500}

\* organizeStatus: a message kind k with its interpolated values: e is the
\* text of a caught error, n and m are the numbers of the template.
St(k, e, n, m) == [k |-> k, e |-> e, n |-> n, m |-> m]
NoStatus == St("", "", 0, 0)
ErrorStatus(e, n) == St("error", e, n, 0)

\* useState<OrganizeResult | null>: null is the empty sequence, a stored
\* result r is <<r>>.
Null == << >>
Some(r) == << r >>


VARIABLES
  activeTab,             \* App: 'dashboard' | 'settings'
  showAutoOrganize,      \* Dashboard state, one variable per useState
  selectedFolder,
  organizeStep,
  organizeStatus,
  scannedFiles,
  organizeResult,
  useExistingFolders,
  useContentExtraction,
  suggestedRules,
  showRulesModal,
  hs,                    \* the pending async handlers with their locals, oldest first
  failedMoves,           \* history: the batch of an execute_file_moves call of
                         \* this session that threw (Null when there is none)
  appStatus,             \* App: status, AppStatus | null
  loading,               \* App
  loginError,            \* Login: error
  loginLoading,          \* Login: loading
  config,                \* Settings: Config | null
  settingsLoading,       \* Settings: loading
  saving,                \* Settings
  focused,               \* Settings: the input of the API URL has the focus
  loggedIn,              \* the backend: a user is logged in
  watching,              \* the backend: the folders are watched
  persisted,             \* the backend: the configuration stored
  ps                     \* the pending handlers of App, Login and Settings

session == << showAutoOrganize, selectedFolder, organizeStep, organizeStatus,
              scannedFiles, organizeResult, suggestedRules, showRulesModal >>
options == << useExistingFolders, useContentExtraction >>
app == << appStatus, loading >>
login == << loginError, loginLoading >>
settings == << config, settingsLoading, saving, focused >>
backend == << loggedIn, watching, persisted >>
shell == << app, login, settings, backend, ps >>
vars == << activeTab, session, options, hs, failedMoves, shell >>


(***************************************************************************)
(* React: the state of a component belongs to the mounted instance.  A     *)
(* handler started by an instance that has been unmounted since keeps      *)
(* running, and its setState calls change nothing.                         *)
(***************************************************************************)
\* A variant of Live: the setState of a handler reaches whatever instance is
\* mounted.
LiveAnyInstance(r) == TRUE

Live(r) == r.live

\* The positions of hs: one start or execute handler of the mounted Dashboard,
\* the generate-rules handlers and the orphans.
Slots == 1..(1 + MaxRulesPending + MaxOrphans)
Pending(kind) == {h \in 1..Len(hs) : hs[h].kind = kind}
RemoveAt(seq, h) == [k \in 1..(Len(seq) - 1) |-> IF k < h THEN seq[k] ELSE seq[k + 1]]

\* The branch of the JSX that is rendered.
View ==
  IF ~showAutoOrganize THEN "closed"
  ELSE IF organizeStep = "preview" /\ organizeResult # Null THEN "preview"
  ELSE IF organizeStep = "done" THEN "done"
  ELSE "select"

\* What App renders: the spinner, the Login form or the tabs with the
\* Dashboard or the Settings.
AppView ==
  IF loading THEN "spinner"
  ELSE IF appStatus = Null \/ ~appStatus[1].is_logged_in THEN "login"
  ELSE "tabs"

\* The configuration the backend holds when the application is installed.
Config0 ==
  [ watched_folders |-> << >>, show_notifications |-> TRUE, start_on_boot |-> FALSE,
    api_url |-> "url" ]

\* The handlers of the kinds given belong to an instance that is unmounted.
Unmounted(kinds, seq) ==
  [p \in 1..Len(seq) |-> IF seq[p].kind \in kinds THEN [seq[p] EXCEPT !.live = FALSE] ELSE seq[p]]

\* The handlers that set the state of Settings.
SettingsKinds == {"save", "add"}

\* A user is logged in and the Dashboard is shown, with Auto-Organize closed:
\* the application was started with a stored login.
Init ==
  /\ activeTab = "dashboard"
  /\ showAutoOrganize = FALSE
  /\ selectedFolder = ""
  /\ organizeStep = "idle"
  /\ organizeStatus = NoStatus
  /\ scannedFiles = << >>
  /\ organizeResult = Null
  /\ useExistingFolders = TRUE
  /\ useContentExtraction = FALSE
  /\ suggestedRules = << >>
  /\ showRulesModal = FALSE
  /\ hs = << >>
  /\ failedMoves = Null
  /\ appStatus = Some([is_logged_in |-> TRUE])
  /\ loading = FALSE
  /\ loginError = ""
  /\ loginLoading = FALSE
  /\ config = Null
  /\ settingsLoading = TRUE
  /\ saving = FALSE
  /\ focused = FALSE
  /\ loggedIn = TRUE
  /\ watching = TRUE
  /\ persisted = Config0
  /\ ps = << >>

(***************************************************************************)
(* setState from a handler: the calls a continuation makes before its next *)
(* await.  They reach the component only when the handler's instance is    *)
(* still mounted.                                                          *)
(***************************************************************************)
SetState(r, step, status, files, result, rules, modal) ==
  /\ organizeStep' = IF Live(r) THEN step ELSE organizeStep
  /\ organizeStatus' = IF Live(r) THEN status ELSE organizeStatus
  /\ scannedFiles' = IF Live(r) THEN files ELSE scannedFiles
  /\ organizeResult' = IF Live(r) THEN result ELSE organizeResult
  /\ suggestedRules' = IF Live(r) THEN rules ELSE suggestedRules
  /\ showRulesModal' = IF Live(r) THEN modal ELSE showRulesModal
  /\ UNCHANGED << shell, activeTab, showAutoOrganize, selectedFolder, options >>

\* setOrganizeStep and setOrganizeStatus alone.
SetStep(r, step, status) ==
  SetState(r, step, status, scannedFiles, organizeResult, suggestedRules, showRulesModal)

\* History kept with a handler: the session it was started for has been
\* discarded (by resetOrganize or by unmounting) while the handler was at
\* cancelledAt.  No code reads it.
Cancelled(r) ==
  IF r.cancelled THEN r ELSE [r EXCEPT !.cancelled = TRUE, !.cancelledAt = r.pc]

\* A call to a collaborator, as the handler issues it.
Call(op, arg, token) == [op |-> op, arg |-> arg, token |-> token]

(***************************************************************************)
(* The user interface of the Dashboard.                                    *)
(***************************************************************************)
\* App: the tab buttons.  Leaving the dashboard tab unmounts the Dashboard;
\* coming back mounts a new instance, whose state is the initial one.
ShowSettingsTab ==
  /\ activeTab = "dashboard"
  /\ activeTab' = "settings"
  /\ showAutoOrganize' = FALSE
  /\ selectedFolder' = ""
  /\ organizeStep' = "idle"
  /\ organizeStatus' = NoStatus
  /\ scannedFiles' = << >>
  /\ organizeResult' = Null
  /\ useExistingFolders' = TRUE
  /\ useContentExtraction' = FALSE
  /\ suggestedRules' = << >>
  /\ showRulesModal' = FALSE
  /\ Len(hs) <= MaxOrphans
  /\ hs' = [h \in 1..Len(hs) |-> Cancelled([hs[h] EXCEPT !.live = FALSE])]
  /\ failedMoves' = Null
  /\ AppView = "tabs"
  /\ UNCHANGED shell

\* Leaving the settings tab unmounts the Settings: a new instance starts
\* with its initial state, and the handlers of the old one set no state.
ShowDashboardTab ==
  /\ AppView = "tabs"
  /\ activeTab = "settings" /\ ~focused
  /\ activeTab' = "dashboard"
  /\ config' = Null /\ settingsLoading' = TRUE /\ saving' = FALSE /\ focused' = FALSE
  /\ ps' = Unmounted(SettingsKinds, ps)
  /\ UNCHANGED << session, options, hs, failedMoves, app, login, backend >>

\* The button that opens the Auto-Organize card.
OpenAutoOrganize ==
  /\ activeTab = "dashboard"
  /\ View = "closed"
  /\ showAutoOrganize' = TRUE
  /\ UNCHANGED << shell, activeTab, selectedFolder, organizeStep, organizeStatus, scannedFiles,
                  organizeResult, suggestedRules, showRulesModal, options, hs, failedMoves >>

\* The quick folder buttons, the folder input and the folder dialog.
SelectFolder(f) ==
  /\ activeTab = "dashboard"
  /\ View = "select"
  /\ organizeStep = "idle"
  /\ selectedFolder' = f
  /\ UNCHANGED << shell, activeTab, showAutoOrganize, organizeStep, organizeStatus, scannedFiles,
                  organizeResult, suggestedRules, showRulesModal, options, hs, failedMoves >>

\* The option checkboxes.
ToggleExistingFolders ==
  /\ activeTab = "dashboard"
  /\ View = "select"
  /\ organizeStep = "idle"
  /\ useExistingFolders' = ~useExistingFolders
  /\ UNCHANGED << shell, activeTab, session, useContentExtraction, hs, failedMoves >>

ToggleContentExtraction ==
  /\ activeTab = "dashboard"
  /\ View = "select"
  /\ organizeStep = "idle"
  /\ useContentExtraction' = ~useContentExtraction
  /\ UNCHANGED << shell, activeTab, session, useExistingFolders, hs, failedMoves >>

\* Where a button that calls resetOrganize is rendered: the preview view, the
\* done view, and the selection view while the step is idle.
CancelRendered ==
  \/ View = "preview"
  \/ View = "done"
  \/ View = "select" /\ organizeStep = "idle"

\* A variant of resetOrganize: setOrganizeResult(null) is missing.
resetOrganizeKeepsResult ==
  /\ activeTab = "dashboard"
  /\ CancelRendered
  /\ showAutoOrganize' = FALSE
  /\ selectedFolder' = ""
  /\ organizeStep' = "idle"
  /\ organizeStatus' = NoStatus
  /\ scannedFiles' = << >>
  /\ suggestedRules' = << >>
  /\ showRulesModal' = FALSE
  /\ hs' = [h \in 1..Len(hs) |-> Cancelled(hs[h])]
  /\ failedMoves' = Null
  /\ UNCHANGED << shell, activeTab, organizeResult, options >>

\* resetOrganize
resetOrganize ==
  /\ activeTab = "dashboard"
  /\ CancelRendered
  /\ showAutoOrganize' = FALSE
  /\ selectedFolder' = ""
  /\ organizeStep' = "idle"
  /\ organizeStatus' = NoStatus
  /\ scannedFiles' = << >>
  /\ organizeResult' = Null
  /\ suggestedRules' = << >>
  /\ showRulesModal' = FALSE
  /\ hs' = [h \in 1..Len(hs) |-> Cancelled(hs[h])]
  /\ failedMoves' = Null
  /\ UNCHANGED << shell, activeTab, options >>

(***************************************************************************)
(* handleStartOrganize                                                     *)
(***************************************************************************)
\* The scans the collaborator may answer with: lists of 0..MaxFiles files, and
\* one list in which two files share a filename.
Scans ==
  {FileList(n) : n \in 0..MaxFiles} \cup {<< ScannedFile(1, 1), ScannedFile(1, 2) >>}

ExistingFolderLists == {<< >>, << "Old" >>}

\* files.map(f => ({ ..., content_preview: '', path: f.path }))
FilesForApi(files) ==
  [i \in 1..Len(files) |->
     [filename |-> files[i].filename, path |-> files[i].path, content_preview |-> NoPreview]]

\* What the extraction service answers for a file when it finds a preview.
PreviewOf(file) == file.path

\* A variant of Min: Math.min is left out.
MinLeft(a, b) == a

Min(a, b) == IF a < b THEN a ELSE b

\* A variant of StartClick: the start button is rendered in every step of the
\* selection view.
StartClickAnyStep ==
  /\ activeTab = "dashboard"
  /\ View = "select"
  /\ selectedFolder # ""
  /\ organizeStep' = "scanning"
  /\ organizeStatus' = St("scanning", "", 0, 0)
  /\ hs' = Append(hs,
       [ kind |-> "start", live |-> TRUE, cancelled |-> FALSE, cancelledAt |-> "", pc |-> "scan",
         folder |-> selectedFolder,
         useExistingFolders |-> useExistingFolders,
         useContentExtraction |-> useContentExtraction,
         files |-> << >>, accessToken |-> NoToken, existingFolders |-> << >>,
         filesForApi |-> << >>, i |-> 0, tasks |-> << >>, progress |-> << >>,
         calls |-> << Call("scan_folder_for_organize", 0, NoToken) >> ])
  /\ UNCHANGED << shell, activeTab, showAutoOrganize, selectedFolder, scannedFiles, organizeResult,
                  suggestedRules, showRulesModal, options, failedMoves >>

\* The click on the start button and the run up to the first await.
StartClick ==
  /\ activeTab = "dashboard"
  /\ View = "select"
  /\ organizeStep = "idle"
  /\ selectedFolder # ""
  /\ organizeStep' = "scanning"
  /\ organizeStatus' = St("scanning", "", 0, 0)
  /\ hs' = Append(hs,
       [ kind |-> "start", live |-> TRUE, cancelled |-> FALSE, cancelledAt |-> "", pc |-> "scan",
         folder |-> selectedFolder,
         useExistingFolders |-> useExistingFolders,
         useContentExtraction |-> useContentExtraction,
         files |-> << >>, accessToken |-> NoToken, existingFolders |-> << >>,
         filesForApi |-> << >>, i |-> 0, tasks |-> << >>, progress |-> << >>,
         calls |-> << Call("scan_folder_for_organize", 0, NoToken) >> ])
  /\ UNCHANGED << shell, activeTab, showAutoOrganize, selectedFolder, scannedFiles, organizeResult,
                  suggestedRules, showRulesModal, options, failedMoves >>

AtStart(h, pc) == h <= Len(hs) /\ hs[h].kind = "start" /\ hs[h].pc = pc

\* The handler returns.
Finish(h) == hs' = RemoveAt(hs, h)

\* A variant of StartCatch: the catch sets the status and leaves the step.
StartCatchKeepsStep(h, e, n) ==
  /\ SetStep(hs[h], organizeStep, ErrorStatus(e, n))
  /\ Finish(h)
  /\ UNCHANGED failedMoves

\* catch (error) of handleStartOrganize
StartCatch(h, e, n) ==
  /\ SetStep(hs[h], "idle", ErrorStatus(e, n))
  /\ Finish(h)
  /\ UNCHANGED failedMoves

\* A variant of TooMany: the cap itself is rejected.
TooManyFromCap(files) == Len(files) >= FileCap

\* if (files.length > 5000)
TooMany(files) == Len(files) > FileCap

\* scan_folder_for_organize returns.
ScanReturn(h, files) ==
  /\ AtStart(h, "scan")
  /\ IF Len(files) = 0
       THEN /\ SetStep(hs[h], "idle", St("folderEmpty", "", 0, 0))
            /\ Finish(h)
       ELSE IF TooMany(files)
       THEN /\ SetStep(hs[h], "idle", St("tooMany", "", Len(files), 0))
            /\ Finish(h)
       ELSE /\ SetState(hs[h], "analyzing", St("found", "", Len(files), 0), files,
                        organizeResult, suggestedRules, showRulesModal)
            /\ hs' = [hs EXCEPT ![h].files = files, ![h].pc = "token",
                        ![h].calls = Append(@, Call("get_access_token", 0, NoToken))]
  /\ UNCHANGED failedMoves

ScanThrow(h) ==
  /\ AtStart(h, "scan")
  /\ StartCatch(h, "scan_folder_for_organize", 0)

\* The windows of the extraction loop: the tasks of the window that starts
\* after file i (0-based index of its first file) are started together.
\* A variant of InWindow: the slice is one file too long.
InWindowWide(i, j) == i < j /\ j <= i + batchSize + 1

InWindow(i, j) == i < j /\ j <= i + batchSize

StartWindow(r, i) ==
  [r EXCEPT
     !.i = i,
     !.tasks = [j \in 1..Len(r.files) |-> IF InWindow(i, j) THEN "read" ELSE @[j]],
     !.calls = @ \o [k \in 1..(Min(i + batchSize, Len(r.files)) - i) |->
                       Call("read_file_content", i + k, NoToken)]]

\* Body.json({ files: filesForApi, existing_folders: existingFolders.map(...),
\* use_existing_folders: useExistingFolders, ... })
AnalyzePayload(r) ==
  [ files |-> r.filesForApi,
    existing_folders |-> [i \in 1..Len(r.existingFolders) |-> r.existingFolders[i]],
    use_existing_folders |-> r.useExistingFolders ]

\* The analyze request is sent.
SendAnalyze(r) ==
  [r EXCEPT !.pc = "analyze",
            !.calls = Append(@, Call("analyze", AnalyzePayload(r), r.accessToken))]

\* A variant of AfterExistingFolders: the extraction runs whatever the option.
AfterExistingFoldersExtracting(r0, status) ==
  LET r == [r0 EXCEPT !.filesForApi = FilesForApi(r0.files),
                      !.tasks = [j \in 1..Len(r0.files) |-> "wait"]]
  IN [rec |-> [StartWindow(r, 0) EXCEPT !.pc = "extract"],
      status |-> St("extracting", "", 0, Len(r.files))]

\* Steps 2 and 3 have finished or were skipped by their options: from the
\* declaration of filesForApi to the next await.  The result is the handler
\* and the status it has set last.
AfterExistingFolders(r0, status) ==
  LET r == [r0 EXCEPT !.filesForApi = FilesForApi(r0.files),
                      !.tasks = [j \in 1..Len(r0.files) |-> "wait"]]
  IN IF r.useContentExtraction
       THEN [rec |-> [StartWindow(r, 0) EXCEPT !.pc = "extract"],
             status |-> St("extracting", "", 0, Len(r.files))]
       ELSE [rec |-> SendAnalyze(r), status |-> status]

Proceed(h, eff) ==
  /\ SetStep(hs[h], organizeStep, eff.status)
  /\ hs' = [hs EXCEPT ![h] = eff.rec]
  /\ UNCHANGED failedMoves

\* get_access_token returns.
TokenReturn(h, tok) ==
  /\ AtStart(h, "token")
  /\ IF tok = NoToken
       THEN /\ SetStep(hs[h], "idle", St("authRequired", "", 0, 0))
            /\ Finish(h)
            /\ UNCHANGED failedMoves
       ELSE LET r == [hs[h] EXCEPT !.accessToken = tok]
            IN IF r.useExistingFolders
                 THEN /\ hs' = [hs EXCEPT ![h] =
                            [r EXCEPT !.pc = "existing",
                                      !.calls = Append(@, Call("scan_existing_folders", 0, NoToken))]]
                      /\ UNCHANGED << shell, activeTab, session, options, failedMoves >>
                 ELSE Proceed(h, AfterExistingFolders(r, organizeStatus))

TokenThrow(h) ==
  /\ AtStart(h, "token")
  /\ StartCatch(h, "get_access_token", 0)

\* scan_existing_folders returns or throws (the inner catch only warns).
ExistingReturn(h, folders) ==
  /\ AtStart(h, "existing")
  /\ Proceed(h, AfterExistingFolders([hs[h] EXCEPT !.existingFolders = folders],
                  St("foundFolders", "", Len(hs[h].files), Len(folders))))

\* A variant of ExistingThrow: the rejection reaches the catch of the handler.
ExistingThrowUncaught(h) ==
  /\ AtStart(h, "existing")
  /\ StartCatch(h, "scan_existing_folders", 0)

\* scan_existing_folders throws: catch (e) { console.warn(...) }
ExistingThrow(h) ==
  /\ AtStart(h, "existing")
  /\ Proceed(h, AfterExistingFolders(hs[h], organizeStatus))

\* A variant of TaskSettles: the preview is stored at batchIdx, the index in
\* the window, instead of fileIdx.
TaskSettlesAtBatchIdx(r0, j, preview) ==
  LET r == [r0 EXCEPT !.tasks[j] = "done",
                      !.filesForApi[j - r0.i].content_preview =
                          IF preview # NoPreview THEN preview ELSE @]
      n == Len(r.files)
      next == r.i + batchSize
      done == Min(next, n)
  IN IF \E k \in 1..n : r.tasks[k] \in {"read", "extract"}
       THEN [rec |-> r, status |-> organizeStatus]
       ELSE IF next < n
         THEN [rec |-> StartWindow([r EXCEPT !.progress = Append(@, done)], next),
               status |-> St("extracting", "", done, n)]
         ELSE [rec |-> SendAnalyze([r EXCEPT !.progress = Append(@, done)]),
               status |-> St("analyzingFiles", "", n, 0)]

\* A task of the current window settles, with the preview it extracted or
\* none.  When it is the last one of the window, Promise.all resolves: the
\* progress is published and the next window starts, or the analyze request
\* is sent.
TaskSettles(r0, j, preview) ==
  LET r == [r0 EXCEPT !.tasks[j] = "done",
                      !.filesForApi[j].content_preview =
                          IF preview # NoPreview THEN preview ELSE @]
      n == Len(r.files)
      next == r.i + batchSize
      done == Min(next, n)
  IN IF \E k \in 1..n : r.tasks[k] \in {"read", "extract"}
       THEN [rec |-> r, status |-> organizeStatus]
       ELSE IF next < n
         THEN [rec |-> StartWindow([r EXCEPT !.progress = Append(@, done)], next),
               status |-> St("extracting", "", done, n)]
         ELSE [rec |-> SendAnalyze([r EXCEPT !.progress = Append(@, done)]),
               status |-> St("analyzingFiles", "", n, 0)]

AtTask(h, j, t) == AtStart(h, "extract") /\ j \in DOMAIN hs[h].tasks /\ hs[h].tasks[j] = t

\* read_file_content returns: an empty content ends the task, any other is
\* sent to extract-content.
ReadReturn(h, j, empty) ==
  /\ AtTask(h, j, "read")
  /\ IF empty
       THEN Proceed(h, TaskSettles(hs[h], j, NoPreview))
       ELSE /\ hs' = [hs EXCEPT ![h].tasks[j] = "extract",
                        ![h].calls = Append(@, Call("extract-content", j, hs[h].accessToken))]
            /\ UNCHANGED << shell, activeTab, session, options, failedMoves >>

\* A variant of ReadThrow: no try around the task, the error reaches the catch
\* of the handler.
ReadThrowUncaught(h, j) ==
  /\ AtTask(h, j, "read")
  /\ StartCatch(h, "read_file_content", 0)

ReadThrow(h, j) ==
  /\ AtTask(h, j, "read")
  /\ Proceed(h, TaskSettles(hs[h], j, NoPreview))

\* extract-content answers: ok says whether the status is a success, found
\* whether the body holds a content_preview that is not empty.
ExtractReturn(h, j, ok, found) ==
  /\ AtTask(h, j, "extract")
  /\ Proceed(h, TaskSettles(hs[h], j,
                  IF ok /\ found THEN PreviewOf(hs[h].files[j]) ELSE NoPreview))

ExtractThrow(h, j) ==
  /\ AtTask(h, j, "extract")
  /\ Proceed(h, TaskSettles(hs[h], j, NoPreview))

\* A variant of AnalyzeError: the message leaves the status code out.
AnalyzeErrorNoCode(status) ==
  IF status = 401 THEN ErrorStatus("sessionExpired", 0) ELSE ErrorStatus("API error", 0)

\* The message of the error thrown for a non-success analyze response.
AnalyzeError(status) ==
  IF status = 401 THEN ErrorStatus("sessionExpired", 0) ELSE ErrorStatus("API error", status)

\* A variant of AnalyzeOk: the result is stored and the step set to done.
AnalyzeOkToDone(h, result) ==
  /\ AtStart(h, "analyze")
  /\ SetState(hs[h], "done", St("ready", "", result.total_folders, 0), scannedFiles,
              Some(result), suggestedRules, showRulesModal)
  /\ Finish(h)
  /\ UNCHANGED failedMoves

\* The analyze request answers with a success status and a result.
AnalyzeOk(h, result) ==
  /\ AtStart(h, "analyze")
  /\ SetState(hs[h], "preview", St("ready", "", result.total_folders, 0), scannedFiles,
              Some(result), suggestedRules, showRulesModal)
  /\ Finish(h)
  /\ UNCHANGED failedMoves

\* A variant of AnalyzeFails: the failure shows the preview.
AnalyzeFailsToPreview(h, status) ==
  /\ AtStart(h, "analyze")
  /\ SetStep(hs[h], "preview", AnalyzeError(status))
  /\ Finish(h)
  /\ UNCHANGED failedMoves

\* The analyze request answers with a non-success status.
AnalyzeFails(h, status) ==
  /\ AtStart(h, "analyze")
  /\ SetStep(hs[h], "idle", AnalyzeError(status))
  /\ Finish(h)
  /\ UNCHANGED failedMoves

AnalyzeThrow(h) ==
  /\ AtStart(h, "analyze")
  /\ StartCatch(h, "analyze", 0)

(***************************************************************************)
(* handleExecuteOrganize                                                   *)
(***************************************************************************)
\* scannedFiles.find(f => f.filename === filename): the index of the first
\* scanned file of that name, 0 when there is none.
Find(files, filename) ==
  IF \E i \in 1..Len(files) : files[i].filename = filename
    THEN CHOOSE i \in 1..Len(files) :
           /\ files[i].filename = filename
           /\ \A k \in 1..(i - 1) : files[k].filename # filename
    ELSE 0

\* folders.flatMap(f): the concatenation of f(folder) over the folders.
RECURSIVE FlatMap(_, _)
FlatMap(f(_), folders) ==
  IF folders = << >> THEN << >> ELSE f(Head(folders)) \o FlatMap(f, Tail(folders))

\* A variant of MovesOfFolder: the filter is missing.
MovesOfFolderUnfiltered(files, folder) ==
  [k \in 1..Len(folder.files) |->
     [ source_path |-> IF Find(files, folder.files[k]) = 0 THEN 0
                       ELSE files[Find(files, folder.files[k])].path,
       dest_folder |-> folder.folder_path,
       filename |-> folder.files[k] ]]

\* The move operations of one suggestion: one per filename, those without a
\* source path filtered out.
MovesOfFolder(files, folder) ==
  SelectSeq(
    [k \in 1..Len(folder.files) |->
       [ source_path |-> IF Find(files, folder.files[k]) = 0 THEN 0
                         ELSE files[Find(files, folder.files[k])].path,
         dest_folder |-> folder.folder_path,
         filename |-> folder.files[k] ]],
    LAMBDA m : m.source_path # 0)

\* const moves = organizeResult.folders.flatMap(...)
BuildMoves(result, files) ==
  LET f(folder) == MovesOfFolder(files, folder) IN FlatMap(f, result.folders)

\* confidence: folder.confidence || 0.9 (in tenths): the default replaces
\* every falsy value, an omitted confidence and 0 alike.
LogConfidence(folder) ==
  IF folder.confidence = NoConfidence \/ folder.confidence = 0 THEN 9 ELSE folder.confidence

\* The bodies of the history records of one suggestion, in the order of the
\* inner loop: one per filename that names a scanned file.
LogsOfFolder(files, base, folder) ==
  LET found == SelectSeq(folder.files, LAMBDA name : Find(files, name) # 0)
  IN [k \in 1..Len(found) |->
        [ filename |-> files[Find(files, found[k])].filename,
          source_path |-> files[Find(files, found[k])].path,
          dest_path |-> << base, folder.folder_path, found[k] >>,
          confidence |-> LogConfidence(folder) ]]

\* The bodies of all history records of an execution, in the order of the two
\* loops.
LogBodies(result, files, base) ==
  LET f(folder) == LogsOfFolder(files, base, folder) IN FlatMap(f, result.folders)

\* What execute_file_moves may return for a batch: the primitive continues
\* past failures and counts the moved files and the errors.
MoveResults(moves) ==
  { [success |-> s, moved_count |-> m, errors |-> e] :
      s \in BOOLEAN, m \in 0..Len(moves), e \in 0..1 }

\* The results of all batches of the model.
AllMoveResults == UNION {MoveResults(BuildMoves(p, s)) : p \in Plans, s \in Scans}

\* A variant of MoveCalls: one call for each operation.
MoveCallsPerFile(base, moves) ==
  [k \in 1..Len(moves) |->
     Call("execute_file_moves",
          [baseFolder |-> base, moves |-> << moves[k] >>, createFolders |-> TRUE], NoToken)]

\* invoke('execute_file_moves', { baseFolder: selectedFolder, moves,
\* createFolders: true }): the calls that submit a batch.
MoveCalls(base, moves) ==
  << Call("execute_file_moves",
          [baseFolder |-> base, moves |-> moves, createFolders |-> TRUE], NoToken) >>

AtExec(h, pc) == h <= Len(hs) /\ hs[h].kind = "exec" /\ hs[h].pc = pc

\* The click on the apply button and the run up to the first await.
ExecuteClick ==
  /\ activeTab = "dashboard"
  /\ View = "preview"
  /\ organizeResult # Null /\ selectedFolder # ""
  /\ organizeStep' = "executing"
  /\ organizeStatus' = St("moving", "", 0, 0)
  /\ hs' = Append(hs,
       [ kind |-> "exec", live |-> TRUE, cancelled |-> FALSE, cancelledAt |-> "", pc |-> "move",
         organizeResult |-> organizeResult[1], scannedFiles |-> scannedFiles,
         selectedFolder |-> selectedFolder,
         moves |-> BuildMoves(organizeResult[1], scannedFiles),
         baseFolder |-> selectedFolder, createFolders |-> TRUE,
         result |-> [success |-> FALSE, moved_count |-> 0, errors |-> 0],
         accessToken |-> NoToken, logs |-> << >>, outcomes |-> << >>,
         calls |-> MoveCalls(selectedFolder, BuildMoves(organizeResult[1], scannedFiles)) ])
  /\ UNCHANGED << shell, activeTab, showAutoOrganize, selectedFolder, scannedFiles, organizeResult,
                  suggestedRules, showRulesModal, options, failedMoves >>

\* The handler returns after setting step and status.
ExecFinish(h, step, status) ==
  /\ SetStep(hs[h], step, status)
  /\ Finish(h)

\* A variant of ExecCatch: the catch of handleStartOrganize, which goes to idle.
ExecCatchToIdle(h, e) == ExecFinish(h, "idle", ErrorStatus(e, 0))

\* catch (error) of handleExecuteOrganize
ExecCatch(h, e) == ExecFinish(h, "preview", ErrorStatus(e, 0))

\* A variant of MovedStatus: the summary counts the operations attempted,
\* moved or not.
MovedStatusAttempted(result) == St("moved", "", result.moved_count + result.errors, 0)

\* The summary of the branch that logs.
MovedStatus(result) == St("moved", "", result.moved_count, 0)

\* if (result.success || result.moved_count > 0)
LogBranch(result) == result.success \/ result.moved_count > 0

\* execute_file_moves returns.
MoveReturn(h, result) ==
  /\ AtExec(h, "move")
  /\ result \in MoveResults(hs[h].moves)
  /\ LET r == [hs[h] EXCEPT !.result = result] IN
       IF LogBranch(result)
         THEN /\ hs' = [hs EXCEPT ![h] =
                   [r EXCEPT !.pc = "logToken",
                             !.calls = Append(@, Call("get_access_token", 0, NoToken))]]
              /\ UNCHANGED << shell, activeTab, session, options >>
         ELSE ExecFinish(h, "done", St("movedWarn", "", result.moved_count, result.errors))
  /\ failedMoves' = IF Live(hs[h]) THEN Null ELSE failedMoves

MoveThrow(h) ==
  /\ AtExec(h, "move")
  /\ ExecCatch(h, "execute_file_moves")
  /\ failedMoves' = IF Live(hs[h]) THEN Some(hs[h].moves) ELSE failedMoves

\* The log call number k is sent, or the loops are over: loadRecentActions,
\* the summary and the step done.
LogNext(h, r) ==
  IF Len(r.outcomes) < Len(r.logs)
    THEN /\ hs' = [hs EXCEPT ![h] =
              [r EXCEPT !.pc = "log",
                        !.calls = Append(@, Call("actions/log", Len(r.outcomes) + 1,
                                                 r.accessToken))]]
         /\ UNCHANGED << shell, activeTab, session, options, failedMoves >>
    ELSE /\ ExecFinish(h, "done", MovedStatus(r.result))
         /\ UNCHANGED failedMoves

\* get_access_token of the log branch returns.
LogTokenReturn(h, tok) ==
  /\ AtExec(h, "logToken")
  /\ IF tok = NoToken
       THEN /\ ExecFinish(h, "done", MovedStatus(hs[h].result))
            /\ UNCHANGED failedMoves
       ELSE LogNext(h, [hs[h] EXCEPT
                          !.accessToken = tok,
                          !.logs = LogBodies(hs[h].organizeResult, hs[h].scannedFiles,
                                             hs[h].selectedFolder)])

\* get_access_token of the log branch throws: no inner try encloses it.
LogTokenThrow(h) ==
  /\ AtExec(h, "logToken")
  /\ ExecCatch(h, "get_access_token")
  /\ UNCHANGED failedMoves

\* A log call settles: "ok", "failed" (a non-success status, which nobody
\* reads) or "threw" (caught by the inner catch, which only warns).
LogOutcomes == {"ok", "failed", "threw"}

\* A variant of LogSettles: no inner catch, a log call that throws reaches the
\* catch of the handler.
LogSettlesUncaught(h, o) ==
  /\ AtExec(h, "log")
  /\ IF o = "threw"
       THEN ExecCatch(h, "actions/log") /\ UNCHANGED failedMoves
       ELSE LogNext(h, [hs[h] EXCEPT !.outcomes = Append(@, o)])

LogSettles(h, o) ==
  /\ AtExec(h, "log")
  /\ LogNext(h, [hs[h] EXCEPT !.outcomes = Append(@, o)])

(***************************************************************************)
(* handleGenerateRules and the rules modal                                 *)
(***************************************************************************)
\* SuggestedRule as the service returns it (selected is not set there).
SuggestedRule(i) == [pattern |-> i, target_folder |-> "Docs", confidence |-> 7, selected |-> FALSE]

\* The rules arrays of the generate-rules responses.
RuleLists == {[i \in 1..n |-> SuggestedRule(i)] : n \in 0..MaxRules}

\* A variant of SelectAll: the rules are stored as they were returned.
SelectAsReturned(rules) == rules

\* response.data.rules.map(r => ({ ...r, selected: true }))
SelectAll(rules) == [i \in 1..Len(rules) |-> [rules[i] EXCEPT !.selected = TRUE]]

AtRules(h, pc) == h <= Len(hs) /\ hs[h].kind = "rules" /\ hs[h].pc = pc

\* A variant of RulesPayload: the folders for which a rule is already
\* suggested are left out.
RulesPayloadUncovered(result, folder) ==
  [ folders |->
      SelectSeq([i \in 1..Len(result.folders) |->
                   [ folder_path |-> result.folders[i].folder_path,
                     files |-> result.folders[i].files,
                     confidence |-> result.folders[i].confidence ]],
                LAMBDA f : \A k \in 1..Len(suggestedRules) :
                             suggestedRules[k].target_folder # f.folder_path),
    source_folder |-> folder ]

\* Body.json({ folders: organizeResult.folders.map(f => ({...})),
\* source_folder: selectedFolder })
RulesPayload(result, folder) ==
  [ folders |-> [i \in 1..Len(result.folders) |->
                   [ folder_path |-> result.folders[i].folder_path,
                     files |-> result.folders[i].files,
                     confidence |-> result.folders[i].confidence ]],
    source_folder |-> folder ]

\* The click on the rules button of the done view, up to the first await.
GenerateRulesClick ==
  /\ activeTab = "dashboard"
  /\ View = "done"
  /\ organizeResult # Null
  /\ Cardinality(Pending("rules")) < MaxRulesPending
  /\ hs' = Append(hs,
       [ kind |-> "rules", live |-> TRUE, cancelled |-> FALSE, cancelledAt |-> "", pc |-> "token",
         organizeResult |-> organizeResult[1], selectedFolder |-> selectedFolder,
         accessToken |-> NoToken,
         calls |-> << Call("get_access_token", 0, NoToken) >> ])
  /\ UNCHANGED << shell, activeTab, session, options, failedMoves >>

\* get_access_token returns: the request is sent, with the token or with ''.
RulesTokenReturn(h, tok) ==
  /\ AtRules(h, "token")
  /\ hs' = [hs EXCEPT ![h].pc = "fetch", ![h].accessToken = tok,
              ![h].calls = Append(@, Call("generate-rules",
                                          RulesPayload(hs[h].organizeResult, hs[h].selectedFolder),
                                          tok))]
  /\ UNCHANGED << shell, activeTab, session, options, failedMoves >>

\* catch (error) of handleGenerateRules: console.error only.
RulesCatch(h) ==
  /\ Finish(h)
  /\ UNCHANGED << shell, activeTab, session, options, failedMoves >>

RulesTokenThrow(h) ==
  /\ AtRules(h, "token")
  /\ RulesCatch(h)

\* The generate-rules request answers.
RulesReturn(h, ok, rules) ==
  /\ AtRules(h, "fetch")
  /\ IF ok /\ Len(rules) > 0
       THEN SetState(hs[h], organizeStep, organizeStatus, scannedFiles, organizeResult,
                     SelectAll(rules), TRUE)
       ELSE SetStep(hs[h], organizeStep, St("noPatterns", "", 0, 0))
  /\ Finish(h)
  /\ UNCHANGED failedMoves

RulesThrow(h) ==
  /\ AtRules(h, "fetch")
  /\ RulesCatch(h)

\* The generate-rules service as a function of its request: a rule for each
\* folder of the payload, returned in any order.
RulesFor(payload) ==
  [i \in 1..Len(payload.folders) |->
     [ pattern |-> i, target_folder |-> payload.folders[i].folder_path,
       confidence |-> payload.folders[i].confidence, selected |-> FALSE ]]

Perms(seq) ==
  { [i \in 1..Len(seq) |-> seq[p[i]]] :
      p \in {q \in [1..Len(seq) -> 1..Len(seq)] :
               \A a, b \in 1..Len(seq) : q[a] = q[b] => a = b} }

\* The generate-rules request answers, with rules of the service for the
\* payload it was sent.
RulesAnswer(h, ok, rules) ==
  /\ AtRules(h, "fetch")
  /\ rules \in Perms(RulesFor(hs[h].calls[Len(hs[h].calls)].arg))
  /\ RulesReturn(h, ok, rules)

ModalShown == activeTab = "dashboard" /\ View = "done" /\ showRulesModal

\* The checkbox of rule idx.
ToggleRule(idx) ==
  /\ ModalShown
  /\ idx \in 1..Len(suggestedRules)
  /\ suggestedRules' = [suggestedRules EXCEPT ![idx].selected = ~@]
  /\ UNCHANGED << shell, activeTab, showAutoOrganize, selectedFolder, organizeStep, organizeStatus,
                  scannedFiles, organizeResult, showRulesModal, options, hs, failedMoves >>

\* The cancel button of the modal.
CloseRulesModal ==
  /\ ModalShown
  /\ showRulesModal' = FALSE
  /\ UNCHANGED << shell, activeTab, showAutoOrganize, selectedFolder, organizeStep, organizeStatus,
                  scannedFiles, organizeResult, suggestedRules, options, hs, failedMoves >>

\* A variant of SaveRules: the status counts every rule shown.
SaveRulesCountsAll ==
  /\ ModalShown
  /\ showRulesModal' = FALSE
  /\ organizeStatus' = St("rulesSaved", "", Len(suggestedRules), 0)
  /\ UNCHANGED << shell, activeTab, showAutoOrganize, selectedFolder, organizeStep,
                  scannedFiles, organizeResult, suggestedRules, options, hs, failedMoves >>

\* The save button of the modal.
SaveRules ==
  /\ ModalShown
  /\ showRulesModal' = FALSE
  /\ organizeStatus' =
       St("rulesSaved", "", Len(SelectSeq(suggestedRules, LAMBDA r : r.selected)), 0)
  /\ UNCHANGED << shell, activeTab, showAutoOrganize, selectedFolder, organizeStep,
                  scannedFiles, organizeResult, suggestedRules, options, hs, failedMoves >>

(***************************************************************************)
(* The shell: App with the login and the logout, Login, Settings.  The     *)
(* backend (the Tauri commands login, logout, start_watching,              *)
(* stop_watching, get_status, get_config and save_config) holds the login, *)
(* the watcher and the stored configuration; a command takes effect when   *)
(* it is answered, and the pending commands are answered in any order.     *)
(***************************************************************************)
\* A handler of the shell as it is started, waiting for its first call.
\* outcomes, base, newConfig and concurrent are history: what the calls
\* answered, the config of the closure, the config handed to saveConfig and
\* whether another save_config was pending at the click.
Handler(kind, pc, op) ==
  [ kind |-> kind, pc |-> pc, live |-> TRUE, calls |-> << op >>, outcomes |-> << >>,
    base |-> Config0, newConfig |-> Config0, concurrent |-> FALSE ]

\* The call the handler waits for is answered and the next one is issued.
Answered(r, o, pc, op) ==
  [r EXCEPT !.outcomes = Append(@, o), !.pc = pc, !.calls = Append(@, op)]

At(p, kind, pc) == p <= Len(ps) /\ ps[p].kind = kind /\ ps[p].pc = pc

\* The positions of ps.
Places == 1..MaxPending

\* loadStatus from the answer of get_status on, with what its caller does
\* next: handleLogin invokes start_watching, saveConfig runs its finally,
\* handleLogout and the effect of App return.  st is the status after the
\* try/catch, o the outcome of get_status.  When the status shown changes
\* between logged out and logged in, App unmounts the Login or the tabs.
loadStatusEnds(p, st, o) ==
  LET r == ps[p]
      view == IF st = Null \/ ~st[1].is_logged_in THEN "login" ELSE "tabs"
      rest == IF r.kind = "login"
                THEN [ps EXCEPT ![p] = Answered(r, o, "start", "start_watching")]
                ELSE RemoveAt(ps, p)
      afterLogin == IF AppView = "login" /\ view = "tabs" THEN Unmounted({"login"}, rest) ELSE rest
  IN /\ appStatus' = st
     /\ loading' = FALSE
     /\ IF AppView = "login" /\ view = "tabs"
          THEN loginError' = "" /\ loginLoading' = FALSE
          ELSE UNCHANGED login
     /\ IF AppView = "tabs" /\ view = "login"
          THEN /\ config' = Null /\ settingsLoading' = TRUE /\ saving' = FALSE
               /\ focused' = FALSE
               /\ ps' = Unmounted(SettingsKinds, afterLogin)
               /\ showAutoOrganize' = FALSE
               /\ selectedFolder' = ""
               /\ organizeStep' = "idle"
               /\ organizeStatus' = NoStatus
               /\ scannedFiles' = << >>
               /\ organizeResult' = Null
               /\ useExistingFolders' = TRUE
               /\ useContentExtraction' = FALSE
               /\ suggestedRules' = << >>
               /\ showRulesModal' = FALSE
               /\ hs' = [h \in 1..Len(hs) |-> Cancelled([hs[h] EXCEPT !.live = FALSE])]
               /\ failedMoves' = Null
          ELSE /\ saving' = IF r.kind = "save" /\ r.live THEN FALSE ELSE saving
               /\ ps' = afterLogin
               /\ UNCHANGED << config, settingsLoading, focused, session, options, hs, failedMoves >>
     /\ UNCHANGED << activeTab, backend >>

\* get_status returns the status of the backend.
loadStatusReturn(p) ==
  /\ p <= Len(ps) /\ ps[p].pc = "status"
  /\ loadStatusEnds(p, Some([is_logged_in |-> loggedIn]), "ok")

\* get_status throws: catch (error) { console.error(...) }
loadStatusThrow(p) ==
  /\ p <= Len(ps) /\ ps[p].pc = "status"
  /\ loadStatusEnds(p, appStatus, "err")

\* Login: the submit of the form, up to invoke('login') in handleLogin.  The
\* button is disabled while loading.
handleSubmit ==
  /\ AppView = "login" /\ ~loginLoading
  /\ Len(ps) < MaxPending
  /\ loginError' = ""
  /\ loginLoading' = TRUE
  /\ ps' = Append(ps, Handler("login", "login", "login"))
  /\ UNCHANGED << activeTab, session, options, hs, failedMoves, app, settings, backend >>

\* login returns: the user is logged in; handleLogin awaits loadStatus().
LoginReturn(p) ==
  /\ At(p, "login", "login")
  /\ loggedIn' = TRUE
  /\ ps' = [ps EXCEPT ![p] = Answered(ps[p], "ok", "status", "get_status")]
  /\ UNCHANGED << activeTab, session, options, hs, failedMoves, app, login, settings,
                  watching, persisted >>

\* handleLogin rejects: the catch and the finally of handleSubmit.
SubmitEnds(p, error) ==
  /\ loginError' = IF ps[p].live THEN error ELSE loginError
  /\ loginLoading' = IF ps[p].live THEN FALSE ELSE loginLoading
  /\ ps' = RemoveAt(ps, p)

\* login throws.
LoginThrow(p) ==
  /\ At(p, "login", "login")
  /\ SubmitEnds(p, "failed")
  /\ UNCHANGED << activeTab, session, options, hs, failedMoves, app, settings, backend >>

\* start_watching returns: the folders are watched; handleLogin resolves.
StartWatchingReturn(p) ==
  /\ At(p, "login", "start")
  /\ watching' = TRUE
  /\ SubmitEnds(p, loginError)
  /\ UNCHANGED << activeTab, session, options, hs, failedMoves, app, settings,
                  loggedIn, persisted >>

StartWatchingThrow(p) ==
  /\ At(p, "login", "start")
  /\ SubmitEnds(p, "failed")
  /\ UNCHANGED << activeTab, session, options, hs, failedMoves, app, settings, backend >>

\* Settings is rendered: the tabs are shown, loadConfig has returned a config.
SettingsShown ==
  AppView = "tabs" /\ activeTab = "settings" /\ ~settingsLoading /\ config # Null

\* loadConfig of the Settings mounted: get_config returns.
loadConfigReturn ==
  /\ AppView = "tabs" /\ activeTab = "settings" /\ settingsLoading
  /\ config' = Some(persisted)
  /\ settingsLoading' = FALSE
  /\ UNCHANGED << activeTab, session, options, hs, failedMoves, app, login, saving, focused,
                  backend, ps >>

\* get_config throws.
loadConfigThrow ==
  /\ AppView = "tabs" /\ activeTab = "settings" /\ settingsLoading
  /\ settingsLoading' = FALSE
  /\ UNCHANGED << activeTab, session, options, hs, failedMoves, app, login, config, saving,
                  focused, backend, ps >>

\* The logout button of Settings: handleLogout up to invoke('stop_watching').
handleLogout ==
  /\ SettingsShown /\ ~focused
  /\ Len(ps) < MaxPending
  /\ ps' = Append(ps, Handler("logout", "stop", "stop_watching"))
  /\ UNCHANGED << activeTab, session, options, hs, failedMoves, app, login, settings, backend >>

\* stop_watching returns: the watcher is stopped; logout is invoked.
StopWatchingReturn(p) ==
  /\ At(p, "logout", "stop")
  /\ watching' = FALSE
  /\ ps' = [ps EXCEPT ![p] = Answered(ps[p], "ok", "logout", "logout")]
  /\ UNCHANGED << activeTab, session, options, hs, failedMoves, app, login, settings,
                  loggedIn, persisted >>

\* stop_watching or logout throws: handleLogout rejects, nothing catches it.
LogoutRejects(p) ==
  /\ At(p, "logout", "stop") \/ At(p, "logout", "logout")
  /\ ps' = RemoveAt(ps, p)
  /\ UNCHANGED << activeTab, session, options, hs, failedMoves, app, login, settings, backend >>

StopWatchingThrow(p) == At(p, "logout", "stop") /\ LogoutRejects(p)

\* logout returns: the user is logged out; handleLogout awaits loadStatus().
LogoutReturn(p) ==
  /\ At(p, "logout", "logout")
  /\ loggedIn' = FALSE
  /\ ps' = [ps EXCEPT ![p] = Answered(ps[p], "ok", "status", "get_status")]
  /\ UNCHANGED << activeTab, session, options, hs, failedMoves, app, login, settings,
                  watching, persisted >>

LogoutThrow(p) == At(p, "logout", "logout") /\ LogoutRejects(p)

\* saveConfig(newConfig) up to invoke('save_config'), called with the config
\* of the closure changed in one field.
SaveRecord(base, newConfig) ==
  [Handler("save", "save", "save_config") EXCEPT
     !.base = base, !.newConfig = newConfig,
     !.concurrent = \E q \in 1..Len(ps) : ps[q].kind = "save" /\ ps[q].pc = "save"]

saveConfig(newConfig) ==
  /\ SettingsShown
  /\ Len(ps) < MaxPending
  /\ saving' = TRUE
  /\ ps' = Append(ps, SaveRecord(config[1], newConfig))
  /\ UNCHANGED << activeTab, session, options, hs, failedMoves, app, login, config,
                  settingsLoading, backend >>

handleToggleNotifications ==
  /\ config # Null /\ ~focused
  /\ saveConfig([config[1] EXCEPT !.show_notifications = ~@])
  /\ UNCHANGED focused

handleToggleStartOnBoot ==
  /\ config # Null /\ ~focused
  /\ saveConfig([config[1] EXCEPT !.start_on_boot = ~@])
  /\ UNCHANGED focused

\* The input of the API URL: a click into it gives it the focus; the next
\* click elsewhere takes the focus away first, and onBlur saves the config
\* shown.
FocusApiUrl ==
  /\ SettingsShown /\ ~focused
  /\ focused' = TRUE
  /\ UNCHANGED << activeTab, session, options, hs, failedMoves, app, login, config,
                  settingsLoading, saving, backend, ps >>

\* onBlur={() => saveConfig(config)}
BlurApiUrl ==
  /\ config # Null /\ focused
  /\ saveConfig(config[1])
  /\ focused' = FALSE

handleRemoveFolder(folder) ==
  /\ config # Null /\ ~focused
  /\ UNCHANGED focused
  /\ \E k \in 1..Len(config[1].watched_folders) : config[1].watched_folders[k] = folder
  /\ saveConfig([config[1] EXCEPT !.watched_folders = SelectSeq(@, LAMBDA f : f # folder)])

\* The add button: handleAddFolder up to the folder dialog.
handleAddFolder ==
  /\ SettingsShown /\ ~focused
  /\ Len(ps) < MaxPending
  /\ Len(config[1].watched_folders) < MaxFolders
  /\ ps' = Append(ps, [Handler("add", "dialog", "open") EXCEPT !.base = config[1]])
  /\ UNCHANGED << activeTab, session, options, hs, failedMoves, app, login, settings, backend >>

\* The dialog returns a folder, or null (here "") when it is dismissed: with
\* a folder, saveConfig is called with the config of the closure.
DialogReturn(p, selected) ==
  /\ At(p, "add", "dialog")
  /\ IF selected # ""
       THEN /\ saving' = IF ps[p].live THEN TRUE ELSE saving
            /\ ps' = [ps EXCEPT ![p] =
                 [SaveRecord(ps[p].base,
                             [ps[p].base EXCEPT !.watched_folders = Append(@, selected)])
                    EXCEPT !.live = ps[p].live]]
       ELSE /\ ps' = RemoveAt(ps, p)
            /\ UNCHANGED saving
  /\ UNCHANGED << activeTab, session, options, hs, failedMoves, app, login, config,
                  settingsLoading, focused, backend >>

\* The dialog throws: catch (error) { console.error(...) }
DialogThrow(p) ==
  /\ At(p, "add", "dialog")
  /\ ps' = RemoveAt(ps, p)
  /\ UNCHANGED << activeTab, session, options, hs, failedMoves, app, login, settings, backend >>

\* onChange={(e) => setConfig({ ...config, api_url: e.target.value })}
EditApiUrl(url) ==
  /\ SettingsShown /\ focused
  /\ config[1].api_url # url
  /\ config' = Some([config[1] EXCEPT !.api_url = url])
  /\ UNCHANGED << activeTab, session, options, hs, failedMoves, app, login, settingsLoading,
                  saving, focused, backend, ps >>

\* save_config returns: the config is stored; setConfig(newConfig) and
\* await onRefresh(), which is loadStatus.
SaveReturn(p) ==
  /\ At(p, "save", "save")
  /\ persisted' = ps[p].newConfig
  /\ config' = IF ps[p].live THEN Some(ps[p].newConfig) ELSE config
  /\ ps' = [ps EXCEPT ![p] = Answered(ps[p], "ok", "status", "get_status")]
  /\ UNCHANGED << activeTab, session, options, hs, failedMoves, app, login, settingsLoading,
                  saving, focused, loggedIn, watching >>

\* save_config throws: the catch logs, the finally clears the flag.
SaveThrow(p) ==
  /\ At(p, "save", "save")
  /\ saving' = IF ps[p].live THEN FALSE ELSE saving
  /\ ps' = RemoveAt(ps, p)
  /\ UNCHANGED << activeTab, session, options, hs, failedMoves, app, login, config,
                  settingsLoading, focused, backend >>

(***************************************************************************)
(* The specification.                                                      *)
(***************************************************************************)
\* The continuations of handleStartOrganize, with the answers of the
\* collaborators: the scans and the analyze results are drawn from the sets
\* given.
PreflightStep(h, scans) ==
  \/ \E files \in scans : ScanReturn(h, files)
  \/ ScanThrow(h)
  \/ \E tok \in Tokens \cup {NoToken} : TokenReturn(h, tok)
  \/ TokenThrow(h)
  \/ \E folders \in ExistingFolderLists : ExistingReturn(h, folders)
  \/ ExistingThrow(h)

\* The tasks of the extraction settle, for lists of up to n files.
ExtractionStepOf(h, n) ==
  \/ \E j \in 1..n, empty \in BOOLEAN : ReadReturn(h, j, empty)
  \/ \E j \in 1..n : ReadThrow(h, j)
  \/ \E j \in 1..n, ok \in BOOLEAN, found \in BOOLEAN : ExtractReturn(h, j, ok, found)
  \/ \E j \in 1..n : ExtractThrow(h, j)

ExtractionStep(h) == ExtractionStepOf(h, MaxFiles)

AnalyzeStep(h, plans) ==
  \/ \E result \in plans : AnalyzeOk(h, result)
  \/ \E status \in FailureStatuses : AnalyzeFails(h, status)
  \/ AnalyzeThrow(h)

StartStep(h, scans, plans) ==
  PreflightStep(h, scans) \/ ExtractionStep(h) \/ AnalyzeStep(h, plans)

\* The continuations of handleExecuteOrganize.
ExecStep(h) ==
  \/ \E result \in AllMoveResults : MoveReturn(h, result)
  \/ MoveThrow(h)
  \/ \E tok \in Tokens \cup {NoToken} : LogTokenReturn(h, tok)
  \/ LogTokenThrow(h)
  \/ \E o \in LogOutcomes : LogSettles(h, o)

\* The continuations of handleGenerateRules.
RulesStep(h) ==
  \/ \E tok \in Tokens \cup {NoToken} : RulesTokenReturn(h, tok)
  \/ RulesTokenThrow(h)
  \/ \E ok \in BOOLEAN, rules \in RuleLists : RulesReturn(h, ok, rules)
  \/ RulesThrow(h)

\* The controls of the selection view, but for the checkbox of the content
\* extraction.
SelectStepNoExtraction ==
  \/ OpenAutoOrganize
  \/ \E f \in Folders : SelectFolder(f)
  \/ ToggleExistingFolders
  \/ resetOrganize
  \/ StartClick

\* The controls of the selection view.
SelectStep == SelectStepNoExtraction \/ ToggleContentExtraction

\* The controls of the rules: the button of the done view and the modal.
RulesUserStep ==
  \/ GenerateRulesClick
  \/ \E idx \in 1..MaxRules : ToggleRule(idx)
  \/ CloseRulesModal
  \/ SaveRules

\* One mounted Dashboard from the selection of a folder to the end of the
\* execution: the user never leaves the dashboard tab and asks for no rules.
Next ==
  \/ SelectStep
  \/ ExecuteClick
  \/ \E h \in Slots : StartStep(h, Scans, Plans) \/ ExecStep(h)

Spec == Init /\ [][Next]_vars

\* The same when every pending call is answered: a promise that settles has
\* its continuation run by the event loop.
HandlerStep == \E h \in Slots : StartStep(h, Scans, Plans) \/ ExecStep(h)

SpecAnswered == Spec /\ WF_vars(HandlerStep)

\* The same with the rules of the done view, for the sessions of one folder
\* content and one analyze result.
RulesScans == {FileList(1)}
RulesPlans == {OrganizeResult(<< FolderSuggestion("Docs", <<1>>, 8) >>)}

NextRules ==
  \/ SelectStep
  \/ ExecuteClick
  \/ RulesUserStep
  \/ \E h \in Slots : StartStep(h, RulesScans, RulesPlans) \/ ExecStep(h) \/ RulesStep(h)

SpecRules == Init /\ [][NextRules]_vars

\* The rules of the done view asked for more than once, for the sessions of
\* one folder content and one analyze result of two folders, the service
\* answering every request by its payload.
IdemScans == {FileList(2)}
IdemPlans ==
  {OrganizeResult(<< FolderSuggestion("Docs", <<1>>, 8), FolderSuggestion("Img", <<2>>, 5) >>)}
IdemRuleLists ==
  UNION {Perms(RulesFor(RulesPayload(p, f))) : p \in IdemPlans, f \in Folders}

NextIdem ==
  \/ OpenAutoOrganize
  \/ \E f \in Folders : SelectFolder(f)
  \/ resetOrganize
  \/ StartClick
  \/ ExecuteClick
  \/ RulesUserStep
  \/ \E h \in Slots :
       \/ PreflightStep(h, IdemScans)
       \/ AnalyzeStep(h, IdemPlans)
       \/ ExecStep(h)
       \/ \E tok \in Tokens \cup {NoToken} : RulesTokenReturn(h, tok)
       \/ RulesTokenThrow(h)
       \/ \E ok \in BOOLEAN, rules \in IdemRuleLists : RulesAnswer(h, ok, rules)
       \/ RulesThrow(h)

SpecIdem == Init /\ [][NextIdem]_vars

\* The start of a session with the tab buttons of App: the Dashboard is
\* unmounted and mounted again at any moment.
TabsScans == {FileList(0), FileList(1)}

NextTabs ==
  \/ ShowSettingsTab
  \/ ShowDashboardTab
  \/ OpenAutoOrganize
  \/ \E f \in Folders : SelectFolder(f)
  \/ ToggleContentExtraction
  \/ resetOrganize
  \/ StartClick
  \/ \E h \in Slots : StartStep(h, TabsScans, RulesPlans)

SpecTabs == Init /\ [][NextTabs]_vars

\* The start of a session on folders around the cap of 5000 files, the
\* content extraction left switched off as it is initially.
CapScans ==
  {FileList(n) : n \in {0, 1, FileCap - 1, FileCap, FileCap + 1, FileCap + FileCap}}

NextCap ==
  \/ SelectStepNoExtraction
  \/ ExecuteClick
  \/ \E h \in Slots : PreflightStep(h, CapScans) \/ AnalyzeStep(h, Plans) \/ ExecStep(h)

SpecCap == Init /\ [][NextCap]_vars

\* The construction of the moves: sessions over scans of up to MaxMoveFiles
\* files, also with files that share a filename, and over analyze results
\* that name the files in another order, twice, or name a file never scanned.
\* No history token is found, so that nothing is logged.
MoveScans ==
  {FileList(n) : n \in 1..MaxMoveFiles}
    \cup { << ScannedFile(1, 1), ScannedFile(1, 2) >>,
           << ScannedFile(1, 1), ScannedFile(2, 2), ScannedFile(1, 3) >> }

MovePlans ==
  { OrganizeResult(<< FolderSuggestion("Docs", <<1, 3>>, 8), FolderSuggestion("Img", <<2>>, 8) >>),
    OrganizeResult(<< FolderSuggestion("Docs", <<1, Unscanned, 2>>, 8) >>),
    OrganizeResult(<< FolderSuggestion("Docs", <<2>>, 8), FolderSuggestion("Img", <<1>>, 8),
                      FolderSuggestion("Misc", <<3>>, 8) >>),
    OrganizeResult(<< FolderSuggestion("Docs", <<1>>, 8), FolderSuggestion("Img", <<1>>, 8) >>),
    OrganizeResult(<< FolderSuggestion("Docs", << Unscanned >>, 8) >>),
    OrganizeResult(<< >>) }

MoveBatchResults == UNION {MoveResults(BuildMoves(p, s)) : p \in MovePlans, s \in MoveScans}

NextMoves ==
  \/ OpenAutoOrganize
  \/ \E f \in Folders : SelectFolder(f)
  \/ resetOrganize
  \/ StartClick
  \/ ExecuteClick
  \/ \E h \in Slots :
       \/ PreflightStep(h, MoveScans)
       \/ AnalyzeStep(h, MovePlans)
       \/ \E result \in MoveBatchResults : MoveReturn(h, result)
       \/ MoveThrow(h)
       \/ LogTokenReturn(h, NoToken)
       \/ LogTokenThrow(h)

SpecMoves == Init /\ [][NextMoves]_vars

\* The content extraction over more than one window: sessions with the
\* extraction switched on, over scans of one file and of MaxExtractFiles
\* files of a folder without subfolders, the tasks of a window settling in
\* any order.
ExtractScans == {FileList(1), FileList(MaxExtractFiles)}

NextExtract ==
  \/ OpenAutoOrganize
  \/ \E f \in Folders : SelectFolder(f)
  \/ ToggleContentExtraction
  \/ resetOrganize
  \/ StartClick
  \/ \E h \in Slots :
       \/ \E files \in ExtractScans : ScanReturn(h, files)
       \/ \E tok \in Tokens \cup {NoToken} : TokenReturn(h, tok)
       \/ ExistingReturn(h, << >>)
       \/ ExistingThrow(h)
       \/ ExtractionStepOf(h, MaxExtractFiles)
       \/ AnalyzeStep(h, RulesPlans)

SpecExtract == Init /\ [][NextExtract]_vars

\* The application from its start with nobody logged in: the login, the
\* tabs, the logout of Settings, every command answered at any time.
InitApp ==
  /\ activeTab = "dashboard"
  /\ showAutoOrganize = FALSE
  /\ selectedFolder = ""
  /\ organizeStep = "idle"
  /\ organizeStatus = NoStatus
  /\ scannedFiles = << >>
  /\ organizeResult = Null
  /\ useExistingFolders = TRUE
  /\ useContentExtraction = FALSE
  /\ suggestedRules = << >>
  /\ showRulesModal = FALSE
  /\ hs = << >>
  /\ failedMoves = Null
  /\ appStatus = Null
  /\ loading = TRUE
  /\ loginError = ""
  /\ loginLoading = FALSE
  /\ config = Null
  /\ settingsLoading = TRUE
  /\ saving = FALSE
  /\ focused = FALSE
  /\ loggedIn = FALSE
  /\ watching = FALSE
  /\ persisted = Config0
  /\ ps = << Handler("status", "status", "get_status") >>

NextWatch ==
  \/ handleSubmit
  \/ ShowSettingsTab
  \/ ShowDashboardTab
  \/ loadConfigReturn
  \/ loadConfigThrow
  \/ handleLogout
  \/ \E p \in Places :
       \/ loadStatusReturn(p)
       \/ loadStatusThrow(p)
       \/ LoginReturn(p)
       \/ LoginThrow(p)
       \/ StartWatchingReturn(p)
       \/ StartWatchingThrow(p)
       \/ StopWatchingReturn(p)
       \/ StopWatchingThrow(p)
       \/ LogoutReturn(p)
       \/ LogoutThrow(p)

SpecWatch == InitApp /\ [][NextWatch]_vars

\* The Settings of a user who is logged in, from the moment the tab is
\* opened: the changes of the settings, each saved by its own save_config.
InitSettings ==
  /\ activeTab = "settings"
  /\ showAutoOrganize = FALSE
  /\ selectedFolder = ""
  /\ organizeStep = "idle"
  /\ organizeStatus = NoStatus
  /\ scannedFiles = << >>
  /\ organizeResult = Null
  /\ useExistingFolders = TRUE
  /\ useContentExtraction = FALSE
  /\ suggestedRules = << >>
  /\ showRulesModal = FALSE
  /\ hs = << >>
  /\ failedMoves = Null
  /\ appStatus = Some([is_logged_in |-> TRUE])
  /\ loading = FALSE
  /\ loginError = ""
  /\ loginLoading = FALSE
  /\ config = Null
  /\ settingsLoading = TRUE
  /\ saving = FALSE
  /\ focused = FALSE
  /\ loggedIn = TRUE
  /\ watching = TRUE
  /\ persisted = Config0
  /\ ps = << >>

PickedFolders == {"A"}
ApiUrls == {"url", "other"}

NextSettings ==
  \/ loadConfigReturn
  \/ loadConfigThrow
  \/ handleToggleNotifications
  \/ handleToggleStartOnBoot
  \/ handleAddFolder
  \/ \E folder \in PickedFolders : handleRemoveFolder(folder)
  \/ FocusApiUrl
  \/ \E url \in ApiUrls : EditApiUrl(url)
  \/ BlurApiUrl
  \/ \E p \in Places :
       \/ \E selected \in PickedFolders \cup {""} : DialogReturn(p, selected)
       \/ DialogThrow(p)
       \/ SaveReturn(p)
       \/ SaveThrow(p)
       \/ loadStatusReturn(p)
       \/ loadStatusThrow(p)

SpecSettings == InitSettings /\ [][NextSettings]_vars

(***************************************************************************)
(* Properties.                                                             *)
(***************************************************************************)
\* The step from the current state to the next is a continuation of the
\* pending handler h: h returns, or h alone moves on to its next await.
Continues(h) ==
  /\ h <= Len(hs)
  /\ \/ hs' = RemoveAt(hs, h)
     \/ /\ Len(hs') = Len(hs)
        /\ hs'[h] # hs[h]
        /\ hs'[h].live = hs[h].live
        /\ hs'[h].cancelled = hs[h].cancelled
        /\ \A g \in 1..Len(hs) : g # h => hs'[g] = hs[g]

\* The operations of the calls a handler has issued so far.
Ops(r) == {r.calls[k].op : k \in 1..Len(r.calls)}

\* C1: a result of handleStartOrganize that arrives after its session was
\* discarded changes nothing of the session.  The controls that call
\* resetOrganize are not rendered while the scan, the extraction or the analyze
\* call of the mounted Dashboard is pending, so a session is discarded under a
\* pending call only by unmounting the Dashboard; every continuation of a
\* handler whose session was discarded leaves the whole session state of the
\* Dashboard mounted since (or of none) as it is: step, status, scannedFiles
\* and organizeResult included.
StaleStartResultDiscarded ==
  /\ [](\A h \in 1..Len(hs) :
          (hs[h].kind = "start" /\ hs[h].live) =>
            /\ ~CancelRendered
            /\ ~hs[h].cancelled
            /\ organizeStep \in {"scanning", "analyzing"})
  /\ [][\A h \in Slots :
          (Continues(h) /\ hs[h].kind = "start" /\ hs[h].cancelled) =>
            UNCHANGED session]_vars

\* C1, reached: the scan of a discarded session has answered with files after
\* the Dashboard was unmounted and its handler has gone on to the analyze
\* request, while the Dashboard mounted since has a scan of its own pending.
StaleStartResultArrived ==
  \E h, g \in 1..Len(hs) :
    /\ hs[h].kind = "start" /\ hs[h].cancelled /\ hs[h].cancelledAt = "scan"
    /\ hs[h].pc = "analyze"
    /\ hs[g].kind = "start" /\ hs[g].live /\ hs[g].pc = "scan"
    /\ activeTab = "dashboard"
    /\ organizeStep = "scanning" /\ scannedFiles = << >> /\ organizeResult = Null

\* C2: a continuation of handleGenerateRules whose session was ended by
\* resetOrganize leaves suggestedRules, showRulesModal and organizeStatus
\* unchanged.
StaleRulesResultDiscarded ==
  [][\A h \in Slots :
       (Continues(h) /\ hs[h].kind = "rules" /\ hs[h].cancelled) =>
         UNCHANGED << suggestedRules, showRulesModal, organizeStatus >>]_vars

\* C3: no file is moved without an approved plan.  execute_file_moves is
\* pending only in step executing, with the moves of the stored result; the
\* step executing is entered only from the preview view by the click that
\* starts handleExecuteOrganize; preview and executing hold a stored result,
\* which is stored only by the success answer of the analyze request of the
\* session's own handler in step analyzing (and is otherwise only cleared);
\* preview is entered only by that answer or back from executing with the
\* result untouched; handleStartOrganize never calls execute_file_moves.
MoveOnlyWithApprovedPlan ==
  /\ [](/\ \A h \in 1..Len(hs) :
             /\ hs[h].kind = "start" => "execute_file_moves" \notin Ops(hs[h])
             /\ "execute_file_moves" \in Ops(hs[h]) => hs[h].kind = "exec"
             /\ (hs[h].kind = "exec" /\ hs[h].pc = "move") =>
                  /\ organizeStep = "executing"
                  /\ organizeResult = Some(hs[h].organizeResult)
                  /\ hs[h].moves = BuildMoves(organizeResult[1], scannedFiles)
        /\ organizeStep \in {"preview", "executing", "done"} => organizeResult # Null)
  /\ [][/\ (organizeStep' = "executing" /\ organizeStep # "executing") =>
             /\ View = "preview"
             /\ organizeResult' = organizeResult
             /\ Len(hs') = Len(hs) + 1
             /\ hs'[Len(hs')].kind = "exec" /\ hs'[Len(hs')].pc = "move"
        /\ organizeResult' # organizeResult =>
             \/ organizeResult' = Null
             \/ /\ organizeStep = "analyzing" /\ organizeStep' = "preview"
                /\ \E h \in Slots :
                     /\ Continues(h) /\ AtStart(h, "analyze") /\ ~hs[h].cancelled
                     /\ organizeStatus'.k = "ready"
        /\ (organizeStep' = "preview" /\ organizeStep # "preview") =>
             \/ organizeStep = "analyzing" /\ organizeResult = Null /\ organizeResult' # Null
             \/ organizeStep = "executing" /\ organizeResult' = organizeResult]_vars

\* C3, reached: execute_file_moves is pending with a batch that is not empty.
MovePending ==
  \E h \in 1..Len(hs) :
    /\ AtExec(h, "move") /\ Len(hs[h].moves) > 0
    /\ organizeStep = "executing"

\* C4: once execute_file_moves has returned, every later continuation of
\* handleExecuteOrganize leaves the step at executing or sets it to done.
DoneAfterMoveReturned ==
  [][\A h \in Slots :
       (Continues(h) /\ hs[h].kind = "exec" /\ hs[h].pc \in {"logToken", "log"}) =>
         organizeStep' \in {"executing", "done"}]_vars

\* C5: when execute_file_moves throws, the step is preview again with an error
\* status and organizeResult, scannedFiles and selectedFolder are unchanged,
\* so that the apply button is rendered; a handleExecuteOrganize started then
\* has issued the move call only, with the moves of the call that threw.
MoveThrowKeepsPlan ==
  /\ [][\A h \in Slots :
          MoveThrow(h) =>
            /\ organizeStep' = "preview"
            /\ organizeStatus' = ErrorStatus("execute_file_moves", 0)
            /\ UNCHANGED << organizeResult, scannedFiles, selectedFolder >>
            /\ View' = "preview" /\ organizeResult' # Null /\ selectedFolder' # ""
            /\ BuildMoves(organizeResult'[1], scannedFiles') = hs[h].moves]_vars
  /\ [](failedMoves # Null =>
          /\ organizeStep \in {"preview", "executing"}
          /\ hs = << >> => organizeStep = "preview" /\ organizeStatus.k = "error"
          /\ \A h \in 1..Len(hs) :
               /\ hs[h].kind = "exec" /\ hs[h].pc = "move"
               /\ hs[h].moves = failedMoves[1]
               /\ Ops(hs[h]) = {"execute_file_moves"} /\ Len(hs[h].calls) = 1)

\* C5, reached: after a move call that threw, the retry is pending with the
\* same batch, which is not empty.
RetryPending ==
  /\ failedMoves # Null
  /\ \E h \in 1..Len(hs) :
       AtExec(h, "move") /\ hs[h].moves = failedMoves[1] /\ Len(hs[h].moves) > 0

\* C6: a scan that returns no file or more than 5000 files ends the handler in
\* step idle with the validation status; the handler has issued the scan call
\* only and scannedFiles is left as it was.  A scan of 1..5000 files is stored
\* in scannedFiles, the step is analyzing and the handler goes on to its next
\* call.
ValidationEndsPreflight ==
  [][\A h \in Slots : \A files \in CapScans :
       ScanReturn(h, files) =>
         IF Len(files) = 0 \/ Len(files) > 5000
           THEN /\ organizeStep' = "idle"
                /\ organizeStatus' = IF Len(files) = 0
                                       THEN St("folderEmpty", "", 0, 0)
                                       ELSE St("tooMany", "", Len(files), 0)
                /\ hs' = RemoveAt(hs, h)
                /\ Ops(hs[h]) = {"scan_folder_for_organize"} /\ Len(hs[h].calls) = 1
                /\ UNCHANGED << scannedFiles, organizeResult >>
           ELSE /\ organizeStep' = "analyzing"
                /\ scannedFiles' = files
                /\ Len(hs') = Len(hs) /\ hs'[h].pc = "token" /\ hs'[h].files = files]_vars

\* C6, reached: a scan of 5001 files has been rejected, in a Dashboard that
\* still holds the 5000 files of an earlier scan, which was not rejected.
CapRejectedAfterCapAccepted ==
  /\ organizeStatus = St("tooMany", "", 5001, 0)
  /\ organizeStep = "idle"
  /\ Len(scannedFiles) = 5000
  /\ hs = << >>

\* C7: the handleStartOrganize that finds no access token has not left step
\* idle and has not called scan_folder_for_organize (nor the analyze request).
NoTokenStaysIdle ==
  [][\A h \in Slots :
       (Continues(h) /\ hs[h].kind = "start" /\ organizeStatus'.k = "authRequired"
          /\ organizeStatus.k # "authRequired") =>
         /\ organizeStep = "idle" /\ organizeStep' = "idle"
         /\ Ops(hs[h]) \cap {"scan_folder_for_organize", "analyze"} = {}]_vars

\* C8: when the analyze request answers 401, the step is idle with the
\* session-expired status, no result is stored and scannedFiles is empty.
Analyze401DiscardsScan ==
  [][\A h \in Slots :
       AnalyzeFails(h, 401) =>
         /\ organizeStep' = "idle"
         /\ organizeStatus' = ErrorStatus("sessionExpired", 0)
         /\ organizeResult' = Null
         /\ scannedFiles' = << >>]_vars

\* C9: when the analyze request answers a non-success status other than 401,
\* or throws, the step is idle, no result is stored and the status is the
\* error message; for a status it is "API error" with the status code.
AnalyzeFailureToIdle ==
  [][\A h \in Slots :
       /\ \A status \in FailureStatuses \ {401} :
            AnalyzeFails(h, status) =>
              /\ organizeStep' = "idle"
              /\ organizeResult' = Null
              /\ organizeStatus'.k = "error" /\ organizeStatus'.e = "API error"
              /\ organizeStatus'.n = status
              /\ hs' = RemoveAt(hs, h)
       /\ AnalyzeThrow(h) =>
            /\ organizeStep' = "idle"
            /\ organizeResult' = Null
            /\ organizeStatus'.k = "error" /\ organizeStatus'.e # ""
            /\ hs' = RemoveAt(hs, h)]_vars

\* C9, reached: the analyze request has answered 500.
AnalyzeFailed500 ==
  /\ organizeStatus = ErrorStatus("API error", 500)
  /\ organizeStep = "idle" /\ organizeResult = Null
  /\ scannedFiles # << >> /\ hs = << >>

\* C10: whatever a history-log call answers, the handler issues the next log
\* call of the execution and changes nothing of the session, or, after the
\* last one, sets the step done with the summary of the move result; the log
\* calls issued are those of LogBodies, one at a time and in their order.
LogFailureSwallowed ==
  /\ [][\A h \in Slots :
          (Continues(h) /\ hs[h].kind = "exec" /\ hs[h].pc = "log") =>
            IF Len(hs[h].outcomes) + 1 < Len(hs[h].logs)
              THEN /\ Len(hs') = Len(hs)
                   /\ hs'[h].pc = "log"
                   /\ hs'[h].calls = Append(hs[h].calls,
                        Call("actions/log", Len(hs[h].outcomes) + 2, hs[h].accessToken))
                   /\ Len(hs'[h].outcomes) = Len(hs[h].outcomes) + 1
                   /\ UNCHANGED session
              ELSE /\ hs' = RemoveAt(hs, h)
                   /\ organizeStep' = "done"
                   /\ organizeStatus' = MovedStatus(hs[h].result)]_vars
  /\ [](\A h \in 1..Len(hs) :
          (hs[h].kind = "exec" /\ hs[h].pc = "log") =>
            /\ hs[h].logs = LogBodies(hs[h].organizeResult, hs[h].scannedFiles,
                                      hs[h].selectedFolder)
            /\ Len(hs[h].outcomes) < Len(hs[h].logs)
            /\ Cardinality({k \in 1..Len(hs[h].calls) : hs[h].calls[k].op = "actions/log"})
                 = Len(hs[h].outcomes) + 1
            /\ organizeStep = "executing")

\* C10, reached: the first log call of an execution has thrown and the second
\* one is pending.
LogCallAfterFailure ==
  \E h \in 1..Len(hs) :
    /\ AtExec(h, "log")
    /\ Len(hs[h].outcomes) = 1 /\ hs[h].outcomes[1] = "threw"
    /\ Len(hs[h].logs) = 2
    /\ organizeStep = "executing"

\* The log calls a handler has issued so far.
LogCalls(r) == {k \in 1..Len(r.calls) : r.calls[k].op = "actions/log"}

\* C11: the history log is fire-and-forget.  The step done and the summary do
\* not wait for the log calls and the log calls do not wait for each other:
\* as soon as a log call is pending, all log calls of the execution have been
\* issued, the step is done and the status is the summary of the move result.
DoneDoesNotWaitForLogs ==
  \A h \in 1..Len(hs) :
    (AtExec(h, "log") /\ hs[h].live) =>
      /\ Cardinality(LogCalls(hs[h])) = Len(hs[h].logs)
      /\ organizeStep = "done"
      /\ organizeStatus = MovedStatus(hs[h].result)

\* C12: the history records sent are those of moved files only: an execution
\* whose move result is partial (files moved and errors) sends at most as many
\* records as execute_file_moves has counted moved files.
LogsOnlyMovedFiles ==
  \A h \in 1..Len(hs) :
    (AtExec(h, "log") /\ hs[h].result.moved_count > 0 /\ hs[h].result.errors > 0) =>
      Len(hs[h].logs) <= hs[h].result.moved_count

\* The (suggestion, filename) pairs of an analyze result, the name of a pair,
\* the pairs whose name is the filename of a scanned file, and the order of
\* the pairs: by suggestion, then by position in the suggestion.
Pairs(result) ==
  UNION {{<< a, b >> : b \in 1..Len(result.folders[a].files)} : a \in 1..Len(result.folders)}
NameOf(result, p) == result.folders[p[1]].files[p[2]]
IsScanned(files, name) == \E i \in 1..Len(files) : files[i].filename = name
Resolved(result, files) == {p \in Pairs(result) : IsScanned(files, NameOf(result, p))}
PairBefore(p, q) == p[1] < q[1] \/ (p[1] = q[1] /\ p[2] < q[2])
Rank(result, files, p) ==
  Cardinality({q \in Resolved(result, files) : PairBefore(q, p)}) + 1

\* C13: the batch handleExecuteOrganize submits holds one operation for each
\* (suggestion, filename) pair whose filename is that of a scanned file, and
\* nothing else: the operations are in the order of the pairs, each with the
\* filename of its pair, the folder_path of its suggestion and the path of
\* the first scanned file of that name.  Pairs that name no scanned file are
\* dropped, with the status of a started execution and no error; when every
\* pair resolves there are as many operations as filenames.
MovesAreResolvedPairs ==
  \A h \in 1..Len(hs) :
    hs[h].kind = "exec" =>
      LET result == hs[h].organizeResult
          files == hs[h].scannedFiles
          moves == hs[h].moves
      IN /\ Len(moves) = Cardinality(Resolved(result, files))
         /\ \A p \in Resolved(result, files) :
              LET m == moves[Rank(result, files, p)] IN
                /\ m.filename = NameOf(result, p)
                /\ m.dest_folder = result.folders[p[1]].folder_path
                /\ \E i \in 1..Len(files) :
                     /\ files[i].filename = m.filename /\ files[i].path = m.source_path
                     /\ \A k \in 1..(i - 1) : files[k].filename # m.filename
         /\ Resolved(result, files) = Pairs(result) =>
              Len(moves) = Cardinality(Pairs(result))
         /\ hs[h].pc = "move" =>
              /\ organizeStep = "executing" /\ organizeStatus = St("moving", "", 0, 0)
              /\ organizeResult = Some(result) /\ scannedFiles = files

\* C13, reached: a batch of two operations is submitted for a result that
\* names three files, the second of them never scanned.
UnscannedPairDropped ==
  \E h \in 1..Len(hs) :
    /\ AtExec(h, "move")
    /\ hs[h].organizeResult = OrganizeResult(<< FolderSuggestion("Docs", <<1, Unscanned, 2>>, 8) >>)
    /\ Len(hs[h].moves) = 2
    /\ hs[h].moves[2].filename = 2

\* The calls of execute_file_moves a handler has issued so far.
BatchCalls(r) == {k \in 1..Len(r.calls) : r.calls[k].op = "execute_file_moves"}

\* C14: every handleExecuteOrganize has called execute_file_moves exactly
\* once, as its first call: with all the operations built from the stored
\* result and the scanned files, createFolders true and the selected folder
\* of the session as baseFolder.
OneBatchCall ==
  \A h \in 1..Len(hs) :
    hs[h].kind = "exec" =>
      /\ BatchCalls(hs[h]) = {1}
      /\ hs[h].calls[1].arg.moves = BuildMoves(hs[h].organizeResult, hs[h].scannedFiles)
      /\ hs[h].calls[1].arg.createFolders = TRUE
      /\ hs[h].calls[1].arg.baseFolder = hs[h].selectedFolder
      /\ (hs[h].pc = "move" /\ hs[h].live) =>
           /\ hs[h].calls[1].arg.baseFolder = selectedFolder
           /\ hs[h].calls[1].arg.moves = BuildMoves(organizeResult[1], scannedFiles)

\* C14, reached: a batch of two operations has been moved and its two history
\* records sent; the batch was the only call of execute_file_moves.
BatchOfTwoLogged ==
  \E h \in 1..Len(hs) :
    /\ AtExec(h, "log")
    /\ Len(hs[h].calls[1].arg.moves) = 2
    /\ Cardinality(LogCalls(hs[h])) = 2
    /\ BatchCalls(hs[h]) = {1}

\* The handlers of handleStartOrganize that have built filesForApi.
Extracting(h) == hs[h].kind = "start" /\ hs[h].pc \in {"extract", "analyze"}

\* The tasks of a handler that are in flight.
InFlight(r) == {j \in 1..Len(r.tasks) : r.tasks[j] \in {"read", "extract"}}

\* C15: the content extraction preserves the list.  During the extraction
\* and when the analyze request is sent, filesForApi has the length of the
\* scanned list, the filename and the path of the scanned file at every
\* index, and at index i no content_preview or the one extracted for file i;
\* without the extraction every content_preview is empty.
ExtractionPreservesList ==
  \A h \in 1..Len(hs) :
    Extracting(h) =>
      /\ Len(hs[h].filesForApi) = Len(hs[h].files)
      /\ \A i \in 1..Len(hs[h].files) :
           /\ hs[h].filesForApi[i].filename = hs[h].files[i].filename
           /\ hs[h].filesForApi[i].path = hs[h].files[i].path
           /\ hs[h].filesForApi[i].content_preview \in {NoPreview, PreviewOf(hs[h].files[i])}
           /\ (~hs[h].useContentExtraction \/ hs[h].tasks[i] # "done") =>
                hs[h].filesForApi[i].content_preview = NoPreview

\* C15, reached: the analyze request of a list of more than 5 files is sent
\* with no preview for the first file and with those of the second and of the
\* last one.
MixedPreviewsSent ==
  \E h \in 1..Len(hs) :
    /\ AtStart(h, "analyze") /\ Len(hs[h].files) > 5
    /\ hs[h].filesForApi[1].content_preview = NoPreview
    /\ hs[h].filesForApi[2].content_preview = PreviewOf(hs[h].files[2])
    /\ hs[h].filesForApi[Len(hs[h].files)].content_preview
         = PreviewOf(hs[h].files[Len(hs[h].files)])

\* C16: the content extraction is windowed.  At most 5 tasks are in flight,
\* all of them in the current window of 5 files; the files before the window
\* have settled and those after it have not been read, so that as many files
\* have been read as lie before the end of the window; the analyze request
\* is sent only when every task has settled.
ExtractionWindowed ==
  \A h \in 1..Len(hs) :
    Extracting(h) =>
      LET r == hs[h]
          n == Len(r.files)
          reads == {k \in 1..Len(r.calls) : r.calls[k].op = "read_file_content"}
      IN /\ Cardinality(InFlight(r)) <= 5
         /\ r.pc = "extract" =>
              /\ InFlight(r) # {}
              /\ r.i % 5 = 0 /\ r.i < n
              /\ \A j \in 1..n :
                   /\ j <= r.i => r.tasks[j] = "done"
                   /\ (r.i < j /\ j <= r.i + 5) => r.tasks[j] # "wait"
                   /\ j > r.i + 5 => r.tasks[j] = "wait"
              /\ Cardinality(reads) = IF r.i + 5 < n THEN r.i + 5 ELSE n
              /\ "analyze" \notin Ops(r)
         /\ r.pc = "analyze" =>
              /\ InFlight(r) = {}
              /\ r.useContentExtraction =>
                   /\ \A j \in 1..n : r.tasks[j] = "done"
                   /\ Cardinality(reads) = n

\* C16, reached: the second window is in flight after the 5 tasks of the
\* first one have settled.
SecondWindowInFlight ==
  \E h \in 1..Len(hs) :
    /\ AtStart(h, "extract") /\ hs[h].i = 5
    /\ hs[h].tasks[6] = "extract"
    /\ \A j \in 1..5 : hs[h].tasks[j] = "done"

\* C17: a task of the extraction that fails (read_file_content throws, or
\* extract-content throws, answers a non-success status or no preview) leaves
\* the content_preview of its file empty and filesForApi as it was; the other
\* tasks are not touched, but for the next window being started; the handler
\* goes on, with step analyzing, to the next window or to the analyze request.
ExtractionFailureIsLocal ==
  [][\A h \in Slots : \A j \in 1..MaxExtractFiles :
       ( /\ AtStart(h, "extract") /\ j \in InFlight(hs[h])
         /\ Len(hs') < Len(hs) \/ hs'[h].tasks[j] = "done"
         /\ \/ ReadThrow(h, j)
            \/ ExtractThrow(h, j)
            \/ \E found \in BOOLEAN : ExtractReturn(h, j, FALSE, found)
            \/ ExtractReturn(h, j, TRUE, FALSE) ) =>
         /\ Len(hs') = Len(hs)
         /\ hs'[h].pc \in {"extract", "analyze"}
         /\ hs'[h].filesForApi = hs[h].filesForApi
         /\ hs'[h].filesForApi[j].content_preview = NoPreview
         /\ hs'[h].tasks[j] = "done"
         /\ \A k \in 1..Len(hs[h].tasks) :
              k # j => \/ hs'[h].tasks[k] = hs[h].tasks[k]
                       \/ hs[h].tasks[k] = "wait" /\ hs'[h].tasks[k] = "read"
         /\ hs'[h].pc = "extract" => InFlight(hs'[h]) # {}
         /\ hs'[h].pc = "analyze" =>
              /\ "analyze" \in Ops(hs'[h])
              /\ \A k \in 1..Len(hs[h].tasks) : hs'[h].tasks[k] = "done"
         /\ hs[h].live => organizeStep = "analyzing" /\ organizeStep' = "analyzing"]_vars

\* C17, reached: the analyze request of a list of more than 5 files is sent
\* after the extraction of the first file failed (extract-content was called
\* for it and it has no preview), with the previews of another file of its
\* window and of a file of the next window.
SentAfterFailedExtraction ==
  \E h \in 1..Len(hs) :
    /\ AtStart(h, "analyze") /\ Len(hs[h].files) > 5
    /\ \E k \in 1..Len(hs[h].calls) :
         hs[h].calls[k].op = "extract-content" /\ hs[h].calls[k].arg = 1
    /\ hs[h].filesForApi[1].content_preview = NoPreview
    /\ hs[h].filesForApi[3].content_preview # NoPreview
    /\ hs[h].filesForApi[6].content_preview # NoPreview
    /\ organizeStep = "analyzing"

\* C18: the progress of the extraction.  The k-th window that settles
\* publishes the count min(5 k, total): the counts published grow strictly
\* and never exceed the total, one is published for each window settled, and
\* the last one, published before the analyze request is sent, is the total.
\* While a window is in flight the status shows the last count published.
ProgressPerWindow ==
  \A h \in 1..Len(hs) :
    Extracting(h) =>
      LET r == hs[h]
          n == Len(r.files)
          p == r.progress
      IN /\ \A k \in 1..Len(p) :
              /\ p[k] = IF 5 * k < n THEN 5 * k ELSE n
              /\ p[k] <= n
              /\ k > 1 => p[k - 1] < p[k]
         /\ r.pc = "extract" =>
              /\ Len(p) * 5 = r.i
              /\ r.live =>
                   organizeStatus =
                     St("extracting", "", IF Len(p) = 0 THEN 0 ELSE p[Len(p)], n)
         /\ (r.pc = "analyze" /\ r.useContentExtraction) =>
              /\ Len(p) >= 1 /\ p[Len(p)] = n
              /\ 5 * (Len(p) - 1) < n
              /\ r.live => organizeStatus = St("analyzingFiles", "", n, 0)
         /\ ~r.useContentExtraction => p = << >>

\* C18, reached: two windows of a list of more than 5 files have settled and
\* published 5 and the total.
TwoWindowsPublished ==
  \E h \in 1..Len(hs) :
    /\ AtStart(h, "analyze")
    /\ Len(hs[h].files) > 5
    /\ hs[h].progress = << 5, Len(hs[h].files) >>

\* C19: cancel() is at hand in the steps preview, analyzing, scanning and
\* done: whenever the Auto-Organize card shows one of them, a control that
\* calls resetOrganize is rendered; and resetOrganize sets the step idle,
\* empties scannedFiles, organizeResult, the selected folder, the status,
\* the suggested rules and closes the rules modal.
CancelFromEveryStep ==
  /\ []((activeTab = "dashboard" /\ showAutoOrganize
           /\ organizeStep \in {"preview", "analyzing", "scanning", "done"}) =>
          CancelRendered)
  /\ [][resetOrganize =>
          /\ organizeStep' = "idle"
          /\ scannedFiles' = << >> /\ organizeResult' = Null
          /\ selectedFolder' = "" /\ organizeStatus' = NoStatus
          /\ suggestedRules' = << >> /\ showRulesModal' = FALSE]_vars

\* C20: the outcome of handleGenerateRules.  A response without rules (or
\* with a non-success status) sets the status to the no-pattern message, an
\* information and not an error, and leaves suggestedRules and the modal as
\* they are; a success response with rules stores exactly these rules, in
\* their order, each with selected true, and opens the modal, leaving the
\* status.  The step is not changed: it is done as long as the session lasts.
RulesOutcome ==
  [][\A h \in Slots : \A ok \in BOOLEAN, rules \in RuleLists :
       RulesReturn(h, ok, rules) =>
         /\ UNCHANGED << organizeStep, organizeResult, scannedFiles, selectedFolder >>
         /\ ~hs[h].cancelled => organizeStep = "done"
         /\ hs' = RemoveAt(hs, h)
         /\ IF ok /\ Len(rules) > 0
              THEN /\ Len(suggestedRules') = Len(rules)
                   /\ \A i \in 1..Len(rules) :
                        /\ suggestedRules'[i].pattern = rules[i].pattern
                        /\ suggestedRules'[i].target_folder = rules[i].target_folder
                        /\ suggestedRules'[i].confidence = rules[i].confidence
                        /\ suggestedRules'[i].selected = TRUE
                   /\ showRulesModal' = TRUE
                   /\ UNCHANGED organizeStatus
              ELSE /\ organizeStatus' = St("noPatterns", "", 0, 0)
                   /\ UNCHANGED << suggestedRules, showRulesModal >>]_vars

\* C20, reached: the done view shows the modal with the two rules of a
\* response, both selected.
TwoRulesShown ==
  /\ ModalShown /\ organizeStep = "done"
  /\ Len(suggestedRules) = 2
  /\ \A i \in 1..2 : suggestedRules[i].selected /\ suggestedRules[i].pattern = i
  /\ hs = << >>

\* The continuation of handler h ends its operation with an error: a scan, a
\* token lookup, an analysis, an execution or a rule generation that failed.
TerminatingError(h) ==
  \/ ScanThrow(h)
  \/ TokenReturn(h, NoToken)
  \/ TokenThrow(h)
  \/ \E status \in FailureStatuses : AnalyzeFails(h, status)
  \/ AnalyzeThrow(h)
  \/ MoveThrow(h)
  \/ LogTokenThrow(h)
  \/ RulesTokenThrow(h)
  \/ RulesThrow(h)

\* C21: every error that ends an operation of the session sets a status: the
\* continuation that ends handleStartOrganize, handleExecuteOrganize or
\* handleGenerateRules with an error leaves a status that is not empty and is
\* not the one shown before.
ErrorsSetStatus ==
  [][\A h \in Slots :
       (TerminatingError(h) /\ ~hs[h].cancelled) =>
         /\ organizeStatus'.k # ""
         /\ organizeStatus' # organizeStatus]_vars

\* The steps a handler passes through.
TransientSteps == {"scanning", "analyzing", "executing"}

\* The kind of handler that enters a step.
HandlerOf(step) == IF step = "executing" THEN "exec" ELSE "start"

\* C22: no session is left in a transient step.  While the step is scanning,
\* analyzing or executing, the handler that entered it is pending; the
\* continuation that ends handleStartOrganize leaves the step idle or preview
\* and the one that ends handleExecuteOrganize leaves it done or preview; and
\* when every pending call is answered, scanning and analyzing lead to idle
\* or preview and executing leads to done or preview.
NoTransientStepLeft ==
  /\ [](organizeStep \in TransientSteps =>
          \E h \in 1..Len(hs) :
            hs[h].kind = HandlerOf(organizeStep) /\ hs[h].live /\ ~hs[h].cancelled)
  /\ [][\A h \in Slots :
          (h <= Len(hs) /\ hs' = RemoveAt(hs, h) /\ hs[h].live) =>
            /\ hs[h].kind = "start" => organizeStep' \in {"idle", "preview"}
            /\ hs[h].kind = "exec" => organizeStep' \in {"done", "preview"}]_vars
  /\ (organizeStep \in {"scanning", "analyzing"}) ~> (organizeStep \in {"idle", "preview"})
  /\ (organizeStep = "executing") ~> (organizeStep \in {"done", "preview"})

\* C22, reached: an execution has ended in preview, by the token lookup of
\* the history log that threw, and no handler is pending.
ExecutionEndedInPreview ==
  /\ organizeStep = "preview"
  /\ organizeStatus = ErrorStatus("get_access_token", 0)
  /\ organizeResult # Null
  /\ hs = << >>

\* The requests to the remote service.
RemoteOps == {"extract-content", "analyze", "actions/log", "generate-rules"}

\* C23: every request to the remote service is authenticated: each request a
\* handler has sent carries a token, the one its get_access_token returned,
\* so that none is sent when no token was returned.
RemoteRequestsAuthenticated ==
  \A h \in 1..Len(hs) : \A k \in 1..Len(hs[h].calls) :
    hs[h].calls[k].op \in RemoteOps =>
      /\ hs[h].calls[k].token \in Tokens
      /\ hs[h].calls[k].token = hs[h].accessToken

\* The edges of the transition table, but for the rows that leave the step
\* as it is.
TableEdges ==
  { << "idle", "scanning" >>, << "scanning", "analyzing" >>, << "scanning", "idle" >>,
    << "analyzing", "preview" >>, << "analyzing", "idle" >>,
    << "preview", "executing" >>, << "preview", "idle" >>,
    << "executing", "done" >>, << "executing", "preview" >>, << "done", "idle" >> }

\* C24: the step changes along the edges of the transition table only, and
\* the initial step is idle.
StepFollowsTable ==
  /\ organizeStep = "idle"
  /\ [][organizeStep' # organizeStep =>
          << organizeStep, organizeStep' >> \in TableEdges]_vars

\* C24, reached: the step is executing for the second time in a session,
\* after idle, scanning, analyzing, preview, executing and preview again.
ExecutingAgain ==
  /\ organizeStep = "executing"
  /\ failedMoves # Null
  /\ \E h \in 1..Len(hs) : AtExec(h, "move")

\* The runs of handleStartOrganize and handleExecuteOrganize in flight for
\* the mounted Dashboard, and those of them that wait for execute_file_moves.
Workflows == {h \in 1..Len(hs) : hs[h].kind \in {"start", "exec"} /\ hs[h].live}
MovesInFlight == {h \in Workflows : hs[h].kind = "exec" /\ hs[h].pc = "move"}

\* C25: at most one organize workflow is in flight for a Dashboard.  A run
\* of handleStartOrganize begins only in step idle and a run of
\* handleExecuteOrganize only in step preview, both with no other run in
\* flight; so at most one run of the two handlers is pending at any time,
\* and at most one call of execute_file_moves.
OneWorkflowInFlight ==
  /\ [](Cardinality(Workflows) <= 1 /\ Cardinality(MovesInFlight) <= 1)
  /\ [][(Len(hs') = Len(hs) + 1 /\ hs'[Len(hs')].kind \in {"start", "exec"}) =>
          /\ Workflows = {}
          /\ organizeStep = IF hs'[Len(hs')].kind = "start" THEN "idle" ELSE "preview"]_vars

\* C25, reached: a second run of handleStartOrganize is in flight, alone,
\* over the files an earlier run of the session has stored.
SecondStartAlone ==
  /\ organizeStep = "scanning" /\ scannedFiles # << >>
  /\ Len(hs) = 1 /\ AtStart(1, "scan")

\* C26: whenever a result is stored, every filename of its suggestions is
\* the filename of a scanned file of the session.
StoredResultNamesScannedFiles ==
  organizeResult # Null =>
    \A p \in Pairs(organizeResult[1]) :
      IsScanned(scannedFiles, NameOf(organizeResult[1], p))

RuleTuples(rules) ==
  { << rules[i].pattern, rules[i].target_folder, rules[i].confidence >> : i \in 1..Len(rules) }

StepAgreesWithPlan ==
  /\ organizeStep \in {"preview", "executing", "done"} =>
       organizeResult # Null /\ scannedFiles # << >> /\ selectedFolder # ""
  /\ organizeStep \in {"idle", "scanning", "analyzing"} => organizeResult = Null

\* C29, reached: the step is preview again after an execution that threw,
\* with the result, the scanned files and the folder of the session.
PreviewKeptAfterThrow ==
  /\ organizeStep = "preview" /\ failedMoves # Null /\ hs = << >>
  /\ organizeResult # Null /\ scannedFiles # << >> /\ selectedFolder # ""

\* C30: the summary of an execution.  When the handler sets the step done,
\* the status reports the moved_count of the result returned: the success
\* summary when success is true or moved_count > 0, the warning summary with
\* the number of errors exactly when success is false and moved_count = 0.
\* A partial result (files moved and errors) always ends so: the handler
\* that holds one goes on in step executing or ends in step done with the
\* success summary, never in preview with an error.
PartialFailureIsDone ==
  [][\A h \in Slots :
       /\ \A result \in AllMoveResults :
            (MoveReturn(h, result) /\ hs[h].live /\ organizeStep' = "done") =>
              /\ ~result.success /\ result.moved_count = 0
              /\ organizeStatus' = St("movedWarn", "", result.moved_count, result.errors)
       /\ (Continues(h) /\ hs[h].kind = "exec" /\ hs[h].live
             /\ hs[h].pc \in {"logToken", "log"}) =>
            /\ hs[h].result.success \/ hs[h].result.moved_count > 0
            /\ organizeStep' = "done" => organizeStatus' = MovedStatus(hs[h].result)
            /\ (hs[h].result.moved_count > 0 /\ hs[h].result.errors > 0) =>
                 IF hs' = RemoveAt(hs, h)
                   THEN organizeStep' = "done" /\ organizeStatus'.k = "moved"
                   ELSE organizeStep' = "executing"]_vars

\* C32: the confidence of a history record is that of its suggestion
\* whenever the suggestion supplies one, 0 included; the default 0.9 is sent
\* only for a suggestion without confidence.
ConfidenceAsSupplied ==
  \A h \in 1..Len(hs) :
    AtExec(h, "log") =>
      \A p \in Resolved(hs[h].organizeResult, hs[h].scannedFiles) :
        LET c == hs[h].organizeResult.folders[p[1]].confidence
            body == hs[h].logs[Rank(hs[h].organizeResult, hs[h].scannedFiles, p)]
        IN body.confidence = IF c = NoConfidence THEN 9 ELSE c

\* The history record of the pair p of a result, as the claim describes it.
RecordOf(result, files, base, p) ==
  LET folder == result.folders[p[1]]
      name == NameOf(result, p)
      i == CHOOSE i \in 1..Len(files) :
             files[i].filename = name /\ \A k \in 1..(i - 1) : files[k].filename # name
  IN [ filename |-> files[i].filename,
       source_path |-> files[i].path,
       dest_path |-> << base, folder.folder_path, name >>,
       confidence |-> IF folder.confidence = NoConfidence THEN 9 ELSE folder.confidence ]

\* C31: history-log calls are issued exactly when the move result has
\* success true or moved_count > 0 and a token was found.  Then there is one
\* call for each (suggestion, filename) pair that names a scanned file, in
\* the order of the pairs, with the filename and the path of that file, the
\* destination built from the selected folder, the folder_path of the
\* suggestion and the filename, and the confidence of the suggestion; the
\* handler that ends has issued all of them, and none in every other case.
LogCallsForResolvedPairs ==
  /\ [](\A h \in 1..Len(hs) :
          hs[h].kind = "exec" =>
            LET r == hs[h]
                pairs == Resolved(r.organizeResult, r.scannedFiles)
            IN /\ LogCalls(r) # {} =>
                    /\ r.result.success \/ r.result.moved_count > 0
                    /\ r.accessToken \in Tokens
                    /\ r.pc = "log"
               /\ r.pc = "log" =>
                    /\ Len(r.logs) = Cardinality(pairs)
                    /\ \A p \in pairs :
                         r.logs[Rank(r.organizeResult, r.scannedFiles, p)]
                           = RecordOf(r.organizeResult, r.scannedFiles, r.selectedFolder, p)
                    /\ Cardinality(LogCalls(r)) = Len(r.outcomes) + 1
                    /\ \A k \in LogCalls(r) :
                         r.calls[k].arg = Cardinality({j \in LogCalls(r) : j <= k}))
  /\ [][\A h \in Slots :
          (Continues(h) /\ hs[h].kind = "exec" /\ hs' = RemoveAt(hs, h)
             /\ hs[h].live /\ organizeStep' = "done") =>
            LET r == hs[h] IN
              Cardinality(LogCalls(r)) =
                IF hs[h].pc = "log"
                  THEN Cardinality(Resolved(r.organizeResult, r.scannedFiles))
                  ELSE 0]_vars

\* The analyze requests a handler has sent so far.
AnalyzeCalls(r) == {k \in 1..Len(r.calls) : r.calls[k].op = "analyze"}

\* C33: the options gate the optional stages.  A handleStartOrganize started
\* with useExistingFolders off never calls scan_existing_folders and sends
\* an empty existing_folders list; one started with useContentExtraction off
\* calls neither read_file_content nor extract-content and sends every file
\* with an empty content_preview.  Whatever the options, no analyze request
\* is sent before the token check is passed and the optional stages are
\* over, and the handler that has passed them sends exactly one, as its last
\* call, with the files of the scan and the option as it was at the start.
OptionsGateStages ==
  /\ [](\A h \in 1..Len(hs) :
          hs[h].kind = "start" =>
            LET r == hs[h] IN
              /\ ~r.useExistingFolders =>
                   /\ "scan_existing_folders" \notin Ops(r)
                   /\ r.pc # "existing"
                   /\ \A k \in AnalyzeCalls(r) :
                        /\ r.calls[k].arg.existing_folders = << >>
                        /\ r.calls[k].arg.use_existing_folders = FALSE
              /\ ~r.useContentExtraction =>
                   /\ Ops(r) \cap {"read_file_content", "extract-content"} = {}
                   /\ r.pc # "extract"
                   /\ \A k \in AnalyzeCalls(r) : \A i \in 1..Len(r.calls[k].arg.files) :
                        r.calls[k].arg.files[i].content_preview = NoPreview
              /\ r.pc # "analyze" => AnalyzeCalls(r) = {}
              /\ r.pc = "analyze" =>
                   /\ AnalyzeCalls(r) = {Len(r.calls)}
                   /\ r.accessToken \in Tokens
                   /\ Len(r.calls[Len(r.calls)].arg.files) = Len(r.files)
                   /\ r.calls[Len(r.calls)].arg.use_existing_folders = r.useExistingFolders)
  /\ [][\A h \in Slots :
          (Continues(h) /\ hs[h].kind = "start" /\ hs[h].pc \in {"token", "existing", "extract"}
             /\ hs[h].accessToken \in Tokens) =>
            /\ Len(hs') = Len(hs)
            /\ hs'[h].pc \in {"existing", "extract", "analyze"}]_vars

\* C33, reached: with both options off, the analyze request of two files is
\* sent right after the token lookup, with no folder hints and no previews.
AnalyzeWithoutOptionalStages ==
  \E h \in 1..Len(hs) :
    /\ AtStart(h, "analyze")
    /\ ~hs[h].useExistingFolders /\ ~hs[h].useContentExtraction
    /\ Len(hs[h].files) = 2
    /\ Len(hs[h].calls) = 3
    /\ hs[h].calls[3].arg.existing_folders = << >>
    /\ \A i \in 1..2 : hs[h].calls[3].arg.files[i].content_preview = NoPreview

\* C34: a failure of scan_existing_folders is swallowed.  The continuation
\* of a handler that waits for scan_existing_folders never ends the handler:
\* it leaves the step as it is (analyzing, for the handler of the session
\* shown), sets no error status and goes on to the extraction or to the
\* analyze request; when the call threw, the list of folders stays empty and,
\* with no extraction to announce, the status is left as it was.  The
\* extraction keeps the list, and the analyze request carries it (empty after
\* a failure) with use_existing_folders = true.
ExistingFailureSwallowed ==
  /\ [](\A h \in 1..Len(hs) :
          (hs[h].kind = "start" /\ hs[h].pc \in {"existing", "extract", "analyze"}
             /\ hs[h].useExistingFolders) =>
            /\ Live(hs[h]) /\ ~hs[h].cancelled => organizeStep = "analyzing"
            /\ hs[h].pc = "existing" => hs[h].existingFolders = << >>
            /\ hs[h].pc = "analyze" =>
                 LET body == hs[h].calls[Len(hs[h].calls)].arg IN
                   /\ body.use_existing_folders = TRUE
                   /\ body.existing_folders = hs[h].existingFolders)
  /\ [][\A h \in Slots :
          /\ (AtStart(h, "existing") /\ Continues(h)) =>
               /\ Len(hs') = Len(hs)
               /\ hs'[h].pc \in {"extract", "analyze"}
               /\ organizeStep' = organizeStep
               /\ organizeStatus'.k # "error"
               /\ ExistingThrow(h) =>
                    /\ hs'[h].existingFolders = << >>
                    /\ ~hs[h].useContentExtraction =>
                         hs'[h].pc = "analyze" /\ organizeStatus' = organizeStatus
          /\ (AtStart(h, "extract") /\ Continues(h)) =>
               /\ Len(hs') = Len(hs)
               /\ hs'[h].existingFolders = hs[h].existingFolders]_vars

\* C34, reached: scan_existing_folders threw (the status still counts no
\* folders) and the analyze request is out, with use_existing_folders = true
\* and no folders, in step analyzing.
AnalyzeAfterExistingThrow ==
  \E h \in 1..Len(hs) :
    /\ AtStart(h, "analyze")
    /\ hs[h].useExistingFolders /\ ~hs[h].useContentExtraction
    /\ "scan_existing_folders" \in Ops(hs[h])
    /\ organizeStep = "analyzing"
    /\ organizeStatus.k # "foundFolders"
    /\ hs[h].calls[Len(hs[h].calls)].arg.use_existing_folders = TRUE
    /\ hs[h].calls[Len(hs[h].calls)].arg.existing_folders = << >>

\* C35: within one submitted batch no source_path occurs in more than one
\* move operation, and each source_path is the path of one scanned file
\* only, the one its operation names: also when the analyze result names a
\* file in two suggestions or twice in one, or two scanned files share a
\* filename.
SourcePathsDistinct ==
  \A h \in 1..Len(hs) :
    hs[h].kind = "exec" =>
      \A c \in 1..Len(hs[h].calls) :
        hs[h].calls[c].op = "execute_file_moves" =>
          LET moves == hs[h].calls[c].arg.moves
              files == hs[h].scannedFiles
          IN /\ \A i, j \in 1..Len(moves) :
                  i # j => moves[i].source_path # moves[j].source_path
             /\ \A i \in 1..Len(moves) : \A a, b \in 1..Len(files) :
                  (files[a].path = moves[i].source_path /\ files[b].path = moves[i].source_path)
                    => a = b /\ files[a].filename = moves[i].filename

\* The rules that are ticked.
SelectedRules(rules) == {k \in 1..Len(rules) : rules[k].selected}

\* C36: rule curation is local to the session.  A step taken while the modal
\* is shown that continues no handler, starts none and keeps the step (the
\* controls of the modal: the checkboxes, cancel and save) leaves the step
\* done and the handlers with their calls as they are, so that nothing is
\* persisted, changes nothing outside the rules, the modal and the status,
\* and is one of: a toggle, which flips selected of one rule and leaves every
\* other rule, the other fields of the rule, the order, the modal and the
\* status unchanged; or the closing of the modal with the rules unchanged,
\* either with the status unchanged (cancel) or with the status that counts
\* the rules with selected = true (save).
RuleCurationLocal ==
  [][(/\ ModalShown
      /\ ~(\E h \in Slots : Continues(h))
      /\ Len(hs') = Len(hs)
      /\ organizeStep' = organizeStep) =>
       /\ hs' = hs
       /\ organizeStep' = "done"
       /\ UNCHANGED << shell, activeTab, showAutoOrganize, selectedFolder, scannedFiles,
                       organizeResult, options, failedMoves >>
       /\ \/ /\ showRulesModal' /\ organizeStatus' = organizeStatus
             /\ Len(suggestedRules') = Len(suggestedRules)
             /\ \E idx \in 1..Len(suggestedRules) :
                  /\ suggestedRules'[idx].selected = ~suggestedRules[idx].selected
                  /\ [suggestedRules'[idx] EXCEPT !.selected = ~@] = suggestedRules[idx]
                  /\ \A k \in 1..Len(suggestedRules) :
                       k # idx => suggestedRules'[k] = suggestedRules[k]
          \/ /\ ~showRulesModal' /\ suggestedRules' = suggestedRules
             /\ \/ organizeStatus' = organizeStatus
                \/ organizeStatus' =
                     St("rulesSaved", "", Cardinality(SelectedRules(suggestedRules)), 0)]_vars

\* C36, reached: two rules were shown, one was unticked and the rules were
\* saved: the modal is closed in step done, the status counts one rule and
\* no handler is pending.
OneOfTwoRulesSaved ==
  /\ organizeStep = "done" /\ ~showRulesModal /\ hs = << >>
  /\ Len(suggestedRules) = 2
  /\ Cardinality(SelectedRules(suggestedRules)) = 1
  /\ organizeStatus = St("rulesSaved", "", 1, 0)

\* A call of operation op that handler r issued after a call of operation
\* before that was answered without an error.
After(r, op, before) ==
  \A k \in 1..Len(r.calls) :
    r.calls[k] = op => \E j \in 1..(k - 1) : r.calls[j] = before /\ r.outcomes[j] = "ok"

ConfigFields == {"watched_folders", "show_notifications", "start_on_boot", "api_url"}

\* The fields a saveConfig handler changed: those in which the config it was
\* called with differs from the config of its closure.
Changes(r) == {f \in ConfigFields : r.newConfig[f] # r.base[f]}

\* The saveConfig handlers whose save_config has returned.
Saved == {p \in 1..Len(ps) : ps[p].kind = "save" /\ ps[p].pc = "status"}

\* C38: the saves of the configuration lose no update.  When two changes
\* were triggered before the save_config of the first had completed and both
\* saves have returned, the configuration stored and the one shown hold both
\* changes; and when a save_config has failed, the config in memory is the
\* one stored and, no other save pending, the saving flag is false.
SavesKeepUpdates ==
  /\ [](\A p, q \in Saved :
          (p < q /\ ps[q].concurrent /\ ps[p].live /\ ps[q].live
             /\ Changes(ps[p]) \cap Changes(ps[q]) = {}) =>
            \A r \in {p, q} : \A f \in Changes(ps[r]) :
              /\ persisted[f] = ps[r].newConfig[f]
              /\ config # Null /\ config[1][f] = ps[r].newConfig[f])
  /\ [][\A p \in Places :
          (At(p, "save", "save") /\ ps[p].live /\ ps' = RemoveAt(ps, p)) =>
            /\ config' = Some(persisted')
            /\ (\A q \in 1..Len(ps') : ps'[q].kind # "save") => ~saving']_vars

====
